---- MODULE Spec2Model ----
(***************************************************************************)
(* A model of the binary decoder of thumper-sample-extractor               *)
(* (src/file_parser.py and src/leaf_parser.py).                            *)
(*                                                                         *)
(* The decoder is a set of Python functions that read from one file       *)
(* object.  The model keeps the byte buffer and the cursor of that file,  *)
(* and runs the functions on it:                                           *)
(*   - the readers that touch the file (read_int ... read_hash, lines     *)
(*     9-28 of file_parser.py) are operators from (buffer, cursor) to      *)
(*     (error, cursor, value);                                             *)
(*   - every other function is its statement list, written in a small      *)
(*     statement language (Call, Let, For, ...), and is run one statement  *)
(*     at a time by the actions below on an explicit call stack.           *)
(* Python values are tagged records [t |-> type, v |-> payload].           *)
(*                                                                         *)
(* level_object_readers (file_parser.py:612-628) names five functions the  *)
(* repository never defines (read_drawer, read_xfm, read_anim, read_flow,  *)
(* read_env).  The model keeps their keys in the registry and raises the   *)
(* NameError where such a reader would be called.                          *)
(***************************************************************************)
EXTENDS Integers, Sequences, FiniteSets, TLC

VARIABLES
    buf,      \* the bytes of the file (a sequence of 0..255), never written
    pos,      \* the cursor of the file object: bytes consumed so far
    entry,    \* the function the caller invoked and its arguments
    stack,    \* the call stack: frames [fn, pc, env, dst, li]
    status,   \* "running" | "done" | "failed"
    err,      \* the exception that ended the decode, "" when none
    ret,      \* the value handed back to the caller
    log       \* history: one record [fn, args, by, start, stop, val] per call
              \* of a statement-list function; stop = -1 until it returns

vars == <<buf, pos, entry, stack, status, err, ret, log>>

(***************************************************************************)
(* Python values                                                           *)
(***************************************************************************)
VInt(n)    == [t |-> "int", v |-> n]
VBool(b)   == [t |-> "bool", v |-> b]
\* a float is kept as the four bytes it was unpacked from, in file order
VFloat(f)  == [t |-> "float", v |-> f]
\* decoded text is the sequence of its UTF-8 code units; program literals
\* and hex digests are TLA+ strings
VStr(s)    == [t |-> "str", v |-> s]
VTuple(s)  == [t |-> "tuple", v |-> s]
VList(s)   == [t |-> "list", v |-> s]
\* a dict is the sequence of its <<key, value>> pairs in insertion order
VDict(s)   == [t |-> "dict", v |-> s]
VFn(n)     == [t |-> "function", v |-> n]
VUndef(n)  == [t |-> "undefined", v |-> n]
VNone      == [t |-> "none", v |-> 0]

FloatExp(f)  == (f[4] % 128) * 2 + (f[3] \div 128)
FloatIsNaN(f)  == FloatExp(f) = 255 /\ (f[3] % 128 # 0 \/ f[2] # 0 \/ f[1] # 0)
FloatIsZero(f) == f[1] = 0 /\ f[2] = 0 /\ f[3] = 0 /\ f[4] % 128 = 0
\* Python's == on two floats unpacked from the file (distinct objects)
FloatEq(f, g) ==
    /\ ~FloatIsNaN(f)
    /\ ~FloatIsNaN(g)
    /\ (f = g \/ (FloatIsZero(f) /\ FloatIsZero(g)))

\* Python's == on the values the decoder compares (dict keys, int tests)
ValEq(a, b) ==
    /\ a.t = b.t
    /\ IF a.t = "float" THEN FloatEq(a.v, b.v) ELSE a.v = b.v

Truthy(x) ==
    CASE x.t = "bool" -> x.v
      [] x.t = "int" -> x.v # 0
      [] x.t = "float" -> ~FloatIsZero(x.v)
      [] x.t \in {"str", "tuple", "list", "dict"} -> Len(x.v) # 0
      [] x.t = "none" -> FALSE
      [] OTHER -> TRUE

(***************************************************************************)
(* Results of a read: err = "" on success                                  *)
(***************************************************************************)
Ok(p, x)   == [err |-> "", pos |-> p, val |-> x]
Fail(e, p) == [err |-> e, pos |-> p, val |-> VNone]

(***************************************************************************)
(* file.read(n) of io.BufferedReader, as used by file_parser.py:10-26:     *)
(* at most n bytes from the cursor, fewer at the end of the file; n = -1   *)
(* reads to the end; n < -1 raises ValueError.                             *)
(***************************************************************************)
file_read_unclamped(b, p, n) ==
    IF n < -1
    THEN [err |-> "ValueError", pos |-> p, data |-> <<>>]
    ELSE [err |-> "", pos |-> IF n = -1 THEN Len(b) ELSE p + n,
          data |-> SubSeq(b, p + 1, IF n = -1 \/ n > Len(b) - p THEN Len(b) ELSE p + n)]

file_read(b, p, n) ==
    IF n < -1
    THEN [err |-> "ValueError", pos |-> p, data |-> <<>>]
    ELSE LET q == IF n = -1 \/ n > Len(b) - p THEN Len(b) ELSE p + n
         IN  [err |-> "", pos |-> q, data |-> SubSeq(b, p + 1, q)]

\* struct.unpack('<i', d)[0] on four bytes
le_int32(d) ==
    d[1] + 256 * d[2] + 65536 * d[3]
      + 16777216 * (IF d[4] >= 128 THEN d[4] - 256 ELSE d[4])

\* struct.unpack('<h', d)[0] on two bytes
le_int16(d) == d[1] + 256 * (IF d[2] >= 128 THEN d[2] - 256 ELSE d[2])

\* a read_int that yields 0 at the end of the file
read_int_zero_at_end(b, p) ==
    LET r == file_read(b, p, 4)
    IN  IF Len(r.data) # 4 THEN Ok(r.pos, VInt(0))
        ELSE Ok(r.pos, VInt(le_int32(r.data)))

read_int(b, p) ==
    LET r == file_read(b, p, 4)
    IN  IF Len(r.data) # 4 THEN Fail("struct.error", r.pos)
        ELSE Ok(r.pos, VInt(le_int32(r.data)))

\* reads four bytes and unpacks them with the two-byte format '<h'
read_short(b, p) ==
    LET r == file_read(b, p, 4)
    IN  IF Len(r.data) # 2 THEN Fail("struct.error", r.pos)
        ELSE Ok(r.pos, VInt(le_int16(r.data)))

read_float(b, p) ==
    LET r == file_read(b, p, 4)
    IN  IF Len(r.data) # 4 THEN Fail("struct.error", r.pos)
        ELSE Ok(r.pos, VFloat(r.data))

read_bool(b, p) ==
    LET r == file_read(b, p, 1)
    IN  IF Len(r.data) # 1 THEN Fail("struct.error", r.pos)
        ELSE Ok(r.pos, VBool(r.data[1] # 0))

\* bytes.decode(): strict UTF-8.  (Here and in the recursions below, what
\* is passed on is bound through a singleton set, so that it is a value
\* computed once and not an expression computed again at every use.)
RECURSIVE Utf8Valid(_)
Utf8Valid(d) ==
    IF Len(d) = 0 THEN TRUE
    ELSE LET c == d[1]
             n == IF c < 128 THEN 1
                  ELSE IF c >= 194 /\ c <= 223 THEN 2
                  ELSE IF c >= 224 /\ c <= 239 THEN 3
                  ELSE IF c >= 240 /\ c <= 244 THEN 4
                  ELSE 0
             Cont(i) == d[i] >= 128 /\ d[i] <= 191
         IN  /\ n # 0
             /\ Len(d) >= n
             /\ \A i \in 2..n : Cont(i)
             /\ (c = 224 => d[2] >= 160)
             /\ (c = 237 => d[2] <= 159)
             /\ (c = 240 => d[2] >= 144)
             /\ (c = 244 => d[2] <= 143)
             /\ \E rest \in {SubSeq(d, n + 1, Len(d))} : Utf8Valid(rest)

read_string(b, p) ==
    LET size == read_int(b, p)
    IN  IF size.err # "" THEN size
        ELSE LET r == file_read(b, size.pos, size.val.v)
             IN  IF r.err # "" THEN Fail(r.err, r.pos)
                 ELSE IF ~Utf8Valid(r.data) THEN Fail("UnicodeDecodeError", r.pos)
                 ELSE Ok(r.pos, VStr(r.data))

HexDigit == <<"0", "1", "2", "3", "4", "5", "6", "7",
              "8", "9", "a", "b", "c", "d", "e", "f">>

\* bytes.hex()
RECURSIVE HexOf(_)
HexOf(d) ==
    IF Len(d) = 0 THEN ""
    ELSE CHOOSE h \in {HexDigit[(d[1] \div 16) + 1] \o HexDigit[(d[1] % 16) + 1] \o HexOf(rest) :
                           rest \in {Tail(d)}} : TRUE

\* bytes(reversed(d))
Reversed(d) == [i \in 1..Len(d) |-> d[Len(d) + 1 - i]]

read_hash_unreversed(b, p) ==
    LET r == file_read(b, p, 4)
    IN  Ok(r.pos, VStr(HexOf(r.data)))

read_hash(b, p) ==
    LET hash_big_endian == file_read(b, p, 4)
        hash_little_endian == Reversed(hash_big_endian.data)
    IN  Ok(hash_big_endian.pos, VStr(HexOf(hash_little_endian)))

(***************************************************************************)
(* Expressions of the statement language                                   *)
(***************************************************************************)
Var(n)        == [k |-> "var", n |-> n]
Lit(x)        == [k |-> "lit", v |-> x]
Fn(n)         == [k |-> "lit", v |-> VFn(n)]
Glob(n)       == [k |-> "glob", n |-> n]
Num(n)        == [k |-> "lit", v |-> VInt(n)]
Str(s)        == [k |-> "lit", v |-> VStr(s)]
DictE(items)  == [k |-> "dict", items |-> items]     \* { ... }
ListE(items)  == [k |-> "list", items |-> items]     \* [ ... ]
TupleE(items) == [k |-> "tuple", items |-> items]    \* ( ... )
Index(e, i)   == [k |-> "index", e |-> e, i |-> i]   \* e[i]
Cond(c, a, b) == [k |-> "cond", c |-> c, a |-> a, b |-> b]  \* a if c else b
Eq(a, b)      == [k |-> "eq", a |-> a, b |-> b]      \* a == b
IsNone(e)     == [k |-> "isnone", e |-> e]           \* e is None
Not(e)        == [k |-> "not", e |-> e]              \* not e
IntOf(e)      == [k |-> "intof", e |-> e]            \* int(e)
KV(key, e)    == [k |-> "kv", key |-> key, e |-> e]  \* 'key': e
Spread(e)     == [k |-> "spread", e |-> e]           \* **e
It(e)         == [k |-> "it", e |-> e]               \* e
Star(e)       == [k |-> "star", e |-> e]             \* *e
Format(e)     == [k |-> "format", e |-> e]         \* format_fake_json(e)

EOk(x)   == [err |-> "", val |-> x]
EFail(e) == [err |-> e, val |-> VNone]

\* d[key] = x that keeps the value of a key already present
DictSet_keep_first(d, key, x) ==
    IF \E j \in 1..Len(d) : ValEq(d[j][1], key) THEN d ELSE Append(d, <<key, x>>)

\* d[key] = x on a dict: an equal key keeps its place and takes the value
DictSet(d, key, x) ==
    IF \E j \in 1..Len(d) : ValEq(d[j][1], key)
    THEN LET j == CHOOSE j \in 1..Len(d) : ValEq(d[j][1], key)
         IN  [d EXCEPT ![j] = <<d[j][1], x>>]
    ELSE Append(d, <<key, x>>)

RECURSIVE DictUpdate(_, _)
DictUpdate(d, pairs) ==
    IF Len(pairs) = 0 THEN d
    ELSE CHOOSE r \in {DictUpdate(d1, Tail(pairs)) :
                           d1 \in {DictSet(d, pairs[1][1], pairs[1][2])}} : TRUE

\* x[i] with a reader that takes no bytes for a key the dict does not hold
Subscript_fallback(x, i) ==
    IF x.t = "dict"
    THEN IF \E j \in 1..Len(x.v) : ValEq(x.v[j][1], i)
         THEN EOk(x.v[CHOOSE j \in 1..Len(x.v) : ValEq(x.v[j][1], i)][2])
         ELSE EOk(VFn("read_edit_state_component"))
    ELSE IF x.t \in {"list", "tuple"} /\ i.t = "int"
    THEN IF i.v >= 0 /\ i.v < Len(x.v) THEN EOk(x.v[i.v + 1])
         ELSE IF i.v < 0 /\ i.v >= -Len(x.v) THEN EOk(x.v[Len(x.v) + i.v + 1])
         ELSE EFail("IndexError")
    ELSE EFail("TypeError")

\* x[i] on a dict (KeyError), a list or a tuple (IndexError, negative
\* indices count from the end)
Subscript(x, i) ==
    IF x.t = "dict"
    THEN IF \E j \in 1..Len(x.v) : ValEq(x.v[j][1], i)
         THEN EOk(x.v[CHOOSE j \in 1..Len(x.v) : ValEq(x.v[j][1], i)][2])
         ELSE EFail("KeyError")
    ELSE IF x.t \in {"list", "tuple"} /\ i.t = "int"
    THEN IF i.v >= 0 /\ i.v < Len(x.v) THEN EOk(x.v[i.v + 1])
         ELSE IF i.v < 0 /\ i.v >= -Len(x.v) THEN EOk(x.v[Len(x.v) + i.v + 1])
         ELSE EFail("IndexError")
    ELSE EFail("TypeError")

(***************************************************************************)
(* The module-level tables: the dispatch registries and the trait tables   *)
(***************************************************************************)
component_readers ==
    VDict(<< <<VStr("63259f0a"), VFn("read_animation_component")>>,
             <<VStr("3c8efb12"), VFn("read_edit_state_component")>>,
             <<VStr("6c2d3373"), VFn("read_approach_animation_component")>>,
             <<VStr("84e761eb"), VFn("read_transform_component")>>,
             <<VStr("f92719ee"), VFn("read_draw_component")>> >>)

data_point_readers ==
    VList(<< VFn("read_int"), VFn("read_bool"), VFn("read_float"), VFn("read_color"),
             VNone, VNone, VNone, VNone,
             VFn("read_bool"),
             VNone, VNone, VNone, VNone, VNone, VNone, VNone, VNone, VNone, VNone,
             VNone >>)

trait_type_names ==
    VList(<< VStr("kTraitInt"), VStr("kTraitBool"), VStr("kTraitFloat"),
             VStr("kTraitColor"), VStr("kTraitObj"), VStr("kTraitVec3"),
             VStr("kTraitPath"), VStr("kTraitEnum"), VStr("kTraitAction"),
             VStr("kTraitObjVec"), VStr("kTraitString"), VStr("kTraitCue"),
             VStr("kTraitEvent"), VStr("kTraitSym"), VStr("kTraitList"),
             VStr("kTraitTraitPath"), VStr("kTraitQuat"), VStr("kTraitChildLib"),
             VStr("kTraitComponent"), VStr("kNumTraitTypes") >>)

\* read_drawer, read_xfm, read_anim, read_flow and read_env are not defined
\* anywhere in the repository
level_object_readers ==
    VDict(<< <<VStr("ce7e85f6"), VFn("read_leaf")>>,
             <<VStr("490780b9"), VFn("read_master")>>,
             <<VStr("d3058b5d"), VUndef("read_drawer")>>,
             <<VStr("7aa8f390"), VFn("read_samp")>>,
             <<VStr("bcd17473"), VFn("read_lvl")>>,
             <<VStr("d897d5db"), VFn("read_spn")>>,
             <<VStr("7d9db5ef"), VUndef("read_xfm")>>,
             <<VStr("5232f8f9"), VUndef("read_anim")>>,
             <<VStr("bf69f115"), VFn("read_mesh")>>,
             <<VStr("4890a3f6"), VFn("read_path")>>,
             <<VStr("7ba5c8e0"), VFn("read_mat")>>,
             <<VStr("86621b1e"), VUndef("read_flow")>>,
             <<VStr("aa63a508"), VFn("read_gate")>>,
             <<VStr("3bbcc4ec"), VUndef("read_env")>>,
             <<VStr("96ba8a70"), VFn("read_tex")>> >>)

objlib_readers ==
    VDict(<< <<VStr("0b374d9e"), VFn("read_level_objlib")>> >>)

file_readers ==
    VDict(<< <<VInt(8), VFn("read_objlib_file")>> >>)

leaf_data_point_readers ==
    VList(<< VFn("read_int"), VFn("read_bool"), VFn("read_float"), VFn("read_rgba"),
             VNone, VNone, VNone, VNone,
             VFn("read_bool"),
             VNone, VNone, VNone, VNone, VNone, VNone, VNone, VNone, VNone, VNone,
             VNone >>)

leaf_section_readers ==
    VDict(<< <<VStr("63259f0a"), VFn("leaf_read_animation_component_section")>>,
             <<VStr("3c8efb12"), VFn("leaf_read_edit_state_component_section")>> >>)

leaf_trait_type_names ==
    VList(<< VStr("kTraitInt"), VStr("kTraitBool"), VStr("kTraitFloat"),
             VStr("kTraitColor"), VStr("kTraitObj"), VStr("kTraitVec3"),
             VStr("kTraitPath"), VStr("kTraitEnum"), VStr("kTraitAction"),
             VStr("kTraitObjVec"), VStr("kTraitString"), VStr("kTraitCue"),
             VStr("kTraitEvent"), VStr("kTraitSym"), VStr("kTraitList"),
             VStr("kTraitTraitPath"), VStr("kTraitQuat"), VStr("kTraitChildLib"),
             VStr("kTraitComponent"), VStr("kNumTraitTypes") >>)

\* the readers that touch the file, by name: a Call statement runs one of
\* them in one step
PrimFns == {"read_int", "read_short", "read_float", "read_bool", "read_string",
            "read_hash"}

Prim(fn, b, p) ==
    CASE fn = "read_int" -> read_int(b, p)
      [] fn = "read_short" -> read_short(b, p)
      [] fn = "read_float" -> read_float(b, p)
      [] fn = "read_bool" -> read_bool(b, p)
      [] fn = "read_string" -> read_string(b, p)
      [] fn = "read_hash" -> read_hash(b, p)

\* a module-level name used by a statement: the value bound to it
Global(n) ==
    CASE n = "component_readers" -> component_readers
      [] n = "data_point_readers" -> data_point_readers
      [] n = "trait_type_names" -> trait_type_names
      [] n = "level_object_readers" -> level_object_readers
      [] n = "objlib_readers" -> objlib_readers
      [] n = "file_readers" -> file_readers
      [] n = "leaf_data_point_readers" -> leaf_data_point_readers
      [] n = "leaf_section_readers" -> leaf_section_readers
      [] n = "leaf_trait_type_names" -> leaf_trait_type_names

(***************************************************************************)
(* format_fake_json (file_parser.py:671-685).  A text built with + and     *)
(* join is kept as the sequence of its parts, each part a str value: a     *)
(* literal of the program, a decoded string, or the digits of a number.    *)
(***************************************************************************)
Tx(s) == <<VStr(s)>>
indents(indent) == [i \in 1..indent |-> VStr("\t")]

RECURSIVE DecimalOf(_)
\* the decimal digits of a natural number, as character codes
DecimalOf(n) ==
    IF n < 10 THEN <<48 + n>>
    ELSE CHOOSE t \in {Append(DecimalOf(q), 48 + (n % 10)) : q \in {n \div 10}} : TRUE
\* str(n) of an int; str(True) is 'True'
str_int(x) ==
    IF x.t = "bool" THEN Tx(IF x.v THEN "True" ELSE "False")
    ELSE <<VStr(IF x.v < 0 THEN <<45>> \o DecimalOf(-x.v) ELSE DecimalOf(x.v))>>

\* a float32 is (-1)^sign * FloatSig * 2^-FloatShift
FloatNeg(f)   == f[4] >= 128
FloatSig(f)   == 8388608 + (f[3] % 128) * 65536 + f[2] * 256 + f[1]
FloatShift(f) == 150 - FloatExp(f)
RECURSIVE TrailingZeros(_)
TrailingZeros(n) ==
    IF n % 2 = 1 THEN 0
    ELSE CHOOSE z \in {1 + TrailingZeros(q) : q \in {n \div 2}} : TRUE
\* the bits after the binary point, once the trailing zero bits are dropped
FracBits(f) == FloatShift(f) - TrailingZeros(FloatSig(f))
\* data.is_integer()
is_integer(f) ==
    IF FloatIsZero(f) THEN TRUE
    ELSE IF FloatExp(f) = 255 THEN FALSE
    ELSE FloatExp(f) # 0 /\ FracBits(f) <= 0
RECURSIVE FracDigits(_, _)
\* the decimal digits of r / 2^k, r < 2^k
FracDigits(r, k) ==
    IF r = 0 THEN <<>>
    ELSE CHOOSE t \in {<<48 + ((r * 10) \div (2 ^ k))>> \o FracDigits(r1, k) :
                           r1 \in {(r * 10) % (2 ^ k)}} : TRUE
\* the floats whose text the model spells out: zero, nan, the infinities,
\* integers below 2^31, and fractions of at most 7 bits at or above 2^-7
\* (their exact decimal expansion has at most 15 digits, so it is the repr)
Spelled(f) ==
    \/ FloatIsZero(f)
    \/ FloatExp(f) = 255
    \/ FloatExp(f) # 0 /\ FloatShift(f) >= -7 /\ FracBits(f) <= 7
         /\ FloatExp(f) >= 120
\* str(int(data)) if data.is_integer() else str(data)
str_float(f) ==
    IF ~Spelled(f) THEN <<VFloat(f)>>      \* repr(data), digits not spelled out
    ELSE IF FloatIsZero(f) THEN <<VStr(<<48>>)>>
    ELSE IF FloatIsNaN(f) THEN Tx("nan")
    ELSE IF FloatExp(f) = 255 THEN Tx(IF FloatNeg(f) THEN "-inf" ELSE "inf")
    ELSE LET sign == IF FloatNeg(f) THEN <<45>> ELSE <<>>
             k == FracBits(f)
             n == FloatSig(f) \div (2 ^ TrailingZeros(FloatSig(f)))
         IN  IF FloatShift(f) <= 0
             THEN <<VStr(sign \o DecimalOf(FloatSig(f) * (2 ^ (-FloatShift(f)))))>>
             ELSE IF k <= 0
             THEN <<VStr(sign \o DecimalOf(FloatSig(f) \div (2 ^ FloatShift(f))))>>
             ELSE <<VStr(sign \o DecimalOf(n \div (2 ^ k)) \o <<46>>
                           \o FracDigits(n % (2 ^ k), k))>>

RECURSIVE format_fake_json(_, _), format_dict(_, _), format_list(_, _)
\* the text of data, or the TypeError of the last branch
format_fake_json(data, indent) ==
    CASE data.t = "dict" ->
           LET r == format_dict(data.v, indent)
           IN  IF r.err # "" THEN r
               ELSE EOk(Tx("{") \o r.val \o Tx("\n") \o indents(indent) \o Tx("}"))
      [] data.t = "list" ->
           LET r == format_list(data.v, indent)
           IN  IF r.err # "" THEN r
               ELSE EOk(Tx("[") \o r.val \o Tx("\n") \o indents(indent) \o Tx("]"))
      \* isinstance(data, int) holds for a bool
      [] data.t \in {"int", "bool"} -> EOk(str_int(data))
      [] data.t = "float" -> EOk(str_float(data.v))
      [] data.t = "str" -> EOk(Tx("'") \o <<data>> \o Tx("'"))
      \* a tuple, None, a function
      [] OTHER -> EFail("TypeError")

\* ''.join('\n' + inner_indents + key + ': ' + value + ',' for key, value in data.items())
format_dict(items, indent) ==
    IF Len(items) = 0 THEN EOk(<<>>)
    ELSE CHOOSE r \in {
             IF key.err # "" THEN key
             ELSE IF value.err # "" THEN value
             ELSE IF rest.err # "" THEN rest
             ELSE EOk(Tx("\n") \o indents(indent + 1) \o key.val \o Tx(": ")
                        \o value.val \o Tx(",") \o rest.val)
             : key \in {format_fake_json(items[1][1], indent + 1)},
               value \in {format_fake_json(items[1][2], indent + 1)},
               rest \in {format_dict(Tail(items), indent)}} : TRUE

\* ''.join('\n' + inner_indents + item + ',' for item in data)
format_list(items, indent) ==
    IF Len(items) = 0 THEN EOk(<<>>)
    ELSE CHOOSE r \in {
             IF item.err # "" THEN item
             ELSE IF rest.err # "" THEN rest
             ELSE EOk(Tx("\n") \o indents(indent + 1) \o item.val \o Tx(",") \o rest.val)
             : item \in {format_fake_json(items[1], indent + 1)},
               rest \in {format_list(Tail(items), indent)}} : TRUE

RECURSIVE Eval(_, _), EvalDict(_, _, _), EvalSeq(_, _, _)
\* the value of expression e in the local variables env
Eval(e, env) ==
    CASE e.k = "var" ->
           IF e.n \in DOMAIN env THEN EOk(env[e.n]) ELSE EFail("UnboundLocalError")
      [] e.k = "lit" -> EOk(e.v)
      [] e.k = "glob" -> EOk(Global(e.n))
      [] e.k = "dict" -> EvalDict(e.items, env, <<>>)
      [] e.k = "list" ->
           LET r == EvalSeq(e.items, env, <<>>)
           IN  IF r.err # "" THEN r ELSE EOk(VList(r.val))
      [] e.k = "tuple" ->
           LET r == EvalSeq(e.items, env, <<>>)
           IN  IF r.err # "" THEN r ELSE EOk(VTuple(r.val))
      [] e.k = "index" ->
           LET x == Eval(e.e, env)
           IN  IF x.err # "" THEN x
               ELSE LET i == Eval(e.i, env)
                    IN  IF i.err # "" THEN i ELSE Subscript(x.val, i.val)
      [] e.k = "cond" ->
           LET c == Eval(e.c, env)
           IN  IF c.err # "" THEN c
               ELSE IF Truthy(c.val) THEN Eval(e.a, env) ELSE Eval(e.b, env)
      [] e.k = "eq" ->
           LET a == Eval(e.a, env)
           IN  IF a.err # "" THEN a
               ELSE LET b == Eval(e.b, env)
                    IN  IF b.err # "" THEN b ELSE EOk(VBool(ValEq(a.val, b.val)))
      [] e.k = "isnone" ->
           LET x == Eval(e.e, env)
           IN  IF x.err # "" THEN x ELSE EOk(VBool(x.val.t = "none"))
      [] e.k = "not" ->
           LET x == Eval(e.e, env)
           IN  IF x.err # "" THEN x ELSE EOk(VBool(~Truthy(x.val)))
      [] e.k = "intof" ->
           LET x == Eval(e.e, env)
           IN  IF x.err # "" THEN x
               ELSE IF x.val.t = "bool" THEN EOk(VInt(IF x.val.v THEN 1 ELSE 0))
               ELSE IF x.val.t = "int" THEN x
               ELSE EFail("TypeError")
      [] e.k = "format" ->
           LET x == Eval(e.e, env)
           IN  IF x.err # "" THEN x
               ELSE LET r == format_fake_json(x.val, 0)
                    IN  IF r.err # "" THEN r ELSE EOk(VStr(r.val))

\* a dict display: 'key': e and **e items, left to right
EvalDict(items, env, acc) ==
    IF Len(items) = 0 THEN EOk(VDict(acc))
    ELSE CHOOSE r \in {
             IF x.err # "" THEN x
             ELSE IF items[1].k # "kv" /\ x.val.t # "dict" THEN EFail("TypeError")
             ELSE CHOOSE q \in {EvalDict(Tail(items), env, acc1) :
                      acc1 \in {IF items[1].k = "kv"
                                THEN DictSet(acc, VStr(items[1].key), x.val)
                                ELSE DictUpdate(acc, x.val.v)}} : TRUE
             : x \in {Eval(items[1].e, env)}} : TRUE

\* a list or tuple display: e and *e items, left to right
EvalSeq(items, env, acc) ==
    IF Len(items) = 0 THEN [err |-> "", val |-> acc]
    ELSE CHOOSE r \in {
             IF x.err # "" THEN x
             ELSE IF items[1].k # "it" /\ x.val.t \notin {"list", "tuple"} THEN EFail("TypeError")
             ELSE CHOOSE q \in {EvalSeq(Tail(items), env, acc1) :
                      acc1 \in {IF items[1].k = "it" THEN Append(acc, x.val)
                                ELSE acc \o x.val.v}} : TRUE
             : x \in {Eval(items[1].e, env)}} : TRUE

(***************************************************************************)
(* Statements                                                              *)
(***************************************************************************)
\* dst = f(file, args...): args are It(e) and Star(e) items
Call(dst, f, args)     == [op |-> "call", dst |-> dst, f |-> f, args |-> args]
\* dst = e
Let(dst, e)            == [op |-> "let", dst |-> dst, e |-> e]
\* lst.append(e)
ListAppend(lst, e)     == [op |-> "append", lst |-> lst, e |-> e]
\* d[ke] = ve
SetItem(d, ke, ve)     == [op |-> "setitem", d |-> d, ke |-> ke, ve |-> ve]
\* for _ in range(n): the body follows, and ends with Jump back to here;
\* exit is the statement after the loop, ctr the loop's hidden counter
ForRange(ctr, n, exit) == [op |-> "for", ctr |-> ctr, n |-> n, exit |-> exit]
\* for x in lst:
ForEach(x, ctr, lst, exit) == [op |-> "foreach", x |-> x, ctr |-> ctr, lst |-> lst, exit |-> exit]
Jump(to)               == [op |-> "jump", to |-> to]
\* continue with the next statement if e is true, with statement to if not
IfNot(e, to)           == [op |-> "ifnot", e |-> e, to |-> to]
\* [a, b] = e
Unpack(a, b, e)        == [op |-> "unpack", a |-> a, b |-> b, e |-> e]
Return(e)              == [op |-> "return", e |-> e]
Raise(x)               == [op |-> "raise", x |-> x]

\* dst = fn(file), fn a function of the module
Rd(dst, fn) == Call(dst, Fn(fn), <<>>)

(***************************************************************************)
(* file_parser.py: the composite readers of the primitive codec            *)
(* A function is [params, body]: its parameters after `file`, and its      *)
(* statements, numbered from 1.  Running past the last statement returns   *)
(* None.                                                                   *)
(***************************************************************************)
read_vector ==
    [params |-> <<>>, body |-> <<
        Rd("x", "read_float"),
        Rd("y", "read_float"),
        Rd("z", "read_float"),
        Return(TupleE(<<It(Var("x")), It(Var("y")), It(Var("z"))>>)) >>]

read_color ==
    [params |-> <<>>, body |-> <<
        Rd("r", "read_float"),
        Rd("g", "read_float"),
        Rd("b", "read_float"),
        Rd("a", "read_float"),
        Return(TupleE(<<It(Var("r")), It(Var("g")), It(Var("b")), It(Var("a"))>>)) >>]

read_transform ==
    [params |-> <<>>, body |-> <<
        Rd("position", "read_vector"),
        Rd("rotation_x", "read_vector"),
        Rd("rotation_y", "read_vector"),
        Rd("rotation_z", "read_vector"),
        Rd("scale", "read_vector"),
        Return(DictE(<< KV("pos", Var("position")),
                        KV("rot_x", Var("rotation_x")),
                        KV("rot_y", Var("rotation_y")),
                        KV("rot_z", Var("rotation_z")),
                        KV("scale", Var("scale")) >>)) >>]

read_file_path_always_pair ==
    [params |-> <<>>, body |-> <<
        Rd("root_index", "read_int"),
        Rd("file_path", "read_string"),
        Return(TupleE(<<It(Var("root_index")), It(Var("file_path"))>>)) >>]

read_file_path ==
    [params |-> <<>>, body |-> <<
        Rd("root_index", "read_int"),
        Rd("file_path", "read_string"),
        Return(Cond(Eq(Var("root_index"), Num(0)),
                    Var("file_path"),
                    TupleE(<<It(Var("root_index")), It(Var("file_path"))>>))) >>]

(***************************************************************************)
(* file_parser.py: component readers                                       *)
(***************************************************************************)
read_animation_component ==
    [params |-> <<>>, body |-> <<
        Rd("animation_component_version_number", "read_int"),
        Rd("frame", "read_float"),
        Rd("unit_of_time", "read_string"),
        Return(DictE(<<>>)) >>]

read_edit_state_component ==
    [params |-> <<>>, body |-> <<
        Return(DictE(<<>>)) >>]

read_approach_animation_component ==
    [params |-> <<>>, body |-> <<
        Rd("animation_component_version_number", "read_int"),
        Rd("frame", "read_float"),
        Rd("unit_of_time", "read_string"),
        Rd("approach_animation_component_version_number", "read_int"),
        Rd("num_approach_beats", "read_int"),
        Return(DictE(<< KV("approach_beats", Var("num_approach_beats")) >>)) >>]

read_transform_component ==
    [params |-> <<>>, body |-> <<
        Rd("transform_component_version_number", "read_int"),
        Rd("transform_parent_object_name", "read_string"),
        Rd("transform_constraint", "read_string"),
        Rd("transform", "read_transform"),
        Return(DictE(<< KV("xfm_name", Var("transform_parent_object_name")),
                        KV("constrainnt", Var("transform_constraint")),
                        Spread(Var("transform")) >>)) >>]

\* no return statement: the function returns None
read_draw_component ==
    [params |-> <<>>, body |-> <<
        (* 1 *) Rd("draw_component_version_number", "read_int"),
        (* 2 *) Rd("is_visible", "read_bool"),
        (* 3 *) Rd("draw_layer", "read_string"),
        (* 4 *) Rd("render_bucket", "read_string"),
        (* 5 *) Rd("num_draw_children", "read_int"),
        (* 6 *) ForRange("_i", Var("num_draw_children"), 9),
        (* 7 *)     Rd("draw_child_name", "read_string"),
        (* 8 *)     Jump(6) >>]

read_component ==
    [params |-> <<>>, body |-> <<
        Rd("component_marker", "read_hash"),
        Let("component_reader", Index(Glob("component_readers"), Var("component_marker"))),
        Call("_result", Var("component_reader"), <<>>),
        Return(Var("_result")) >>]

read_components ==
    [params |-> <<>>, body |-> <<
        (* 1 *) Rd("num_components", "read_int"),
        (* 2 *) Let("components", ListE(<<>>)),
        (* 3 *) ForRange("_i", Var("num_components"), 7),
        (* 4 *)     Rd("component", "read_component"),
        (* 5 *)     ListAppend("components", Var("component")),
        (* 6 *)     Jump(3),
        (* 7 *) Return(Var("components")) >>]

(***************************************************************************)
(* file_parser.py: trait paths and data points                             *)
(***************************************************************************)
read_trait_path ==
    [params |-> <<>>, body |-> <<
        (* 1 *) Rd("num_sub_levels", "read_int"),
        (* 2 *) Let("sub_levels", ListE(<<>>)),
        (* 3 *) ForRange("_i", Var("num_sub_levels"), 8),
        (* 4 *)     Rd("member", "read_hash"),
        (* 5 *)     Rd("member_index", "read_int"),
        (* 6 *)     ListAppend("sub_levels",
                        Cond(Eq(Var("member_index"), Num(-1)),
                             Var("member"),
                             TupleE(<<It(Var("member")), It(Var("member_index"))>>))),
        (* 7 *)     Jump(3),
        (* 8 *) Return(Var("sub_levels")) >>]

read_data_point ==
    [params |-> <<"trait_type">>, body |-> <<
        (* 1 *) Let("data_point_reader", Index(Glob("data_point_readers"), Var("trait_type"))),
        (* 2 *) IfNot(IsNone(Var("data_point_reader")), 4),
        (* 3 *)     Raise("TypeError"),
        (* 4 *) Rd("time", "read_float"),
        (* 5 *) Call("data_point", Var("data_point_reader"), <<>>),
        (* 6 *) Rd("interpolation_method", "read_string"),
        (* 7 *) Rd("easing_method", "read_string"),
        (* 8 *) Return(TupleE(<<It(Var("time")), It(Var("data_point"))>>)) >>]

read_data_points ==
    [params |-> <<"trait_type">>, body |-> <<
        (* 1 *) Rd("num_data_points", "read_int"),
        (* 2 *) Let("data_points", DictE(<<>>)),
        (* 3 *) ForRange("_i", Var("num_data_points"), 7),
        (* 4 *)     Call("data_point", Fn("read_data_point"), <<It(Var("trait_type"))>>),
        (* 5 *)     SetItem("data_points", Index(Var("data_point"), Num(0)),
                                           Index(Var("data_point"), Num(1))),
        (* 6 *)     Jump(3),
        (* 7 *) Return(Var("data_points")) >>]

read_sequencer_object ==
    [params |-> <<>>, body |-> <<
        Rd("object_name", "read_string"),
        Rd("trait_path", "read_trait_path"),
        Rd("trait_type", "read_int"),
        Call("data_points", Fn("read_data_points"), <<It(Var("trait_type"))>>),
        Call("ui_elements", Fn("read_data_points"), <<It(Var("trait_type"))>>),
        Rd("line_animation_type", "read_int"),
        Rd("default_trait_interpolation_method", "read_int"),
        Rd("default_trait_easing_method", "read_int"),
        Rd("unused_1", "read_int"),
        Rd("unused_2", "read_int"),
        Rd("intensity_operation_1", "read_string"),
        Rd("intensity_operation_2", "read_string"),
        Rd("has_intensity_phase", "read_bool"),
        Rd("trait_setter_op", "read_bool"),
        Rd("step_frequency", "read_int"),
        Rd("unused_3", "read_float"),
        Rd("unused_4", "read_color"),
        Rd("intensity_scale", "read_bool"),
        Rd("unused_5", "read_bool"),
        Rd("unknown", "read_bool"),
        Return(DictE(<<
            KV("obj_name", Var("object_name")),
            KV("param_path", Index(Var("trait_path"), Num(0))),
            KV("trait_type", Index(Glob("trait_type_names"), Var("trait_type"))),
            KV("data_points", Var("data_points")),
            KV("step", Str("False")),
            KV("footer", ListE(<<
                It(Var("line_animation_type")),
                It(Var("default_trait_easing_method")),
                It(Var("default_trait_interpolation_method")),
                It(Var("unused_1")),
                It(Var("unused_2")),
                It(Var("intensity_operation_1")),
                It(Var("intensity_operation_2")),
                It(IntOf(Var("has_intensity_phase"))),
                It(IntOf(Var("trait_setter_op"))),
                It(Var("step_frequency")),
                It(Var("unused_3")),
                Star(Var("unused_4")),
                It(IntOf(Var("intensity_scale"))),
                It(IntOf(Var("unused_5"))) >>)) >>)) >>]

read_sequencer_objects ==
    [params |-> <<>>, body |-> <<
        (* 1 *) Rd("num_sequencer_objects", "read_int"),
        (* 2 *) Let("sequencer_objects", ListE(<<>>)),
        (* 3 *) ForRange("_i", Var("num_sequencer_objects"), 7),
        (* 4 *)     Rd("sequencer_object_component", "read_sequencer_object"),
        (* 5 *)     ListAppend("sequencer_objects", Var("sequencer_object_component")),
        (* 6 *)     Jump(3),
        (* 7 *) Return(Var("sequencer_objects")) >>]

(***************************************************************************)
(* file_parser.py: object readers                                          *)
(***************************************************************************)
read_leaf ==
    [params |-> <<"name">>, body |-> <<
        (* 1 *)  Rd("sequin_leaf_version_number", "read_int"),
        (* 2 *)  Rd("trait_anim_version_number", "read_int"),
        (* 3 *)  Rd("obj_version_number", "read_int"),
        (* 4 *)  Rd("components", "read_components"),
        (* 5 *)  Rd("sequencer_objects", "read_sequencer_objects"),
        (* 6 *)  Rd("num_beats", "read_int"),
        (* 7 *)  Rd("path_phase", "read_float"),
        (* 8 *)  Rd("tile_phase", "read_float"),
        (* 9 *)  ForRange("_i", Var("num_beats"), 12),
        (* 10 *)     Rd("unused", "read_vector"),
        (* 11 *)     Jump(9),
        (* 12 *) Rd("turn_lane_offset", "read_int"),
        (* 13 *) Return(DictE(<< KV("obj_type", Str("SequinLeaf")),
                                 KV("obj_name", Var("name")),
                                 KV("seq_objs", Var("sequencer_objects")),
                                 KV("beat_cnt", Var("num_beats")) >>)) >>]

read_global_library ==
    [params |-> <<>>, body |-> <<
        Rd("unknown", "read_int"),
        Rd("library_name", "read_string"),
        Return(DictE(<<>>)) >>]

read_global_libraries ==
    [params |-> <<>>, body |-> <<
        (* 1 *) Rd("num_global_libraries", "read_int"),
        (* 2 *) Let("global_libraries", ListE(<<>>)),
        (* 3 *) ForRange("_i", Var("num_global_libraries"), 7),
        (* 4 *)     Rd("global_library", "read_global_library"),
        (* 5 *)     ListAppend("global_libraries", Var("global_library")),
        (* 6 *)     Jump(3),
        (* 7 *) Return(Var("global_libraries")) >>]

read_level_external_object ==
    [params |-> <<>>, body |-> <<
        Rd("object_type", "read_hash"),
        Rd("object_name", "read_string"),
        Rd("unknown", "read_int"),
        Return(DictE(<<>>)) >>]

read_level_external_objects ==
    [params |-> <<>>, body |-> <<
        (* 1 *) Rd("num_external_objects", "read_int"),
        (* 2 *) Let("external_objects", ListE(<<>>)),
        (* 3 *) ForRange("_i", Var("num_external_objects"), 7),
        (* 4 *)     Rd("external_object", "read_level_external_object"),
        (* 5 *)     ListAppend("external_objects", Var("external_object")),
        (* 6 *)     Jump(3),
        (* 7 *) Return(Var("external_objects")) >>]

read_lvl_grouping ==
    [params |-> <<>>, body |-> <<
        Rd("lvl_object_name", "read_string"),
        Rd("gate_object_name", "read_string"),
        Rd("has_checkpoint", "read_bool"),
        Rd("checkpoint_leader_lvl_object_name", "read_string"),
        Rd("rest_lvl_object_name", "read_string"),
        Rd("unknown_1", "read_bool"),
        Rd("unknown_2", "read_bool"),
        Rd("unknown_3", "read_int"),
        Rd("unknown_4", "read_bool"),
        Rd("is_in_play_plus", "read_bool"),
        Return(DictE(<<
            KV("lvl_name", Var("lvl_object_name")),
            KV("gate_name", Var("gate_object_name")),
            KV("checkpoint", Var("has_checkpoint")),
            KV("checkpoint_leader_lvl_name", Var("checkpoint_leader_lvl_object_name")),
            KV("rest_lvl_name", Var("rest_lvl_object_name")),
            KV("play_plus", Var("is_in_play_plus")) >>)) >>]

read_lvl_groupings ==
    [params |-> <<>>, body |-> <<
        (* 1 *) Rd("num_lvl_groupings", "read_int"),
        (* 2 *) Let("lvl_groupings", ListE(<<>>)),
        (* 3 *) ForRange("_i", Var("num_lvl_groupings"), 7),
        (* 4 *)     Rd("lvl_grouping", "read_lvl_grouping"),
        (* 5 *)     ListAppend("lvl_groupings", Var("lvl_grouping")),
        (* 6 *)     Jump(3),
        (* 7 *) Return(Var("lvl_groupings")) >>]

read_master ==
    [params |-> <<"name">>, body |-> <<
        Rd("sequin_master_version_number", "read_int"),
        Rd("sequencer_objects_version_number", "read_int"),
        Rd("obj_version_number", "read_int"),
        Rd("components", "read_components"),
        Rd("sequencer_objects", "read_sequencer_objects"),
        Rd("min_end_frame", "read_float"),
        Rd("skybox_object_name", "read_string"),
        Rd("intro_lvl_obj_name", "read_string"),
        Rd("lvl_groupings", "read_lvl_groupings"),
        Rd("unknown_1", "read_bool"),
        Rd("unknown_2", "read_bool"),
        Rd("unknown_3", "read_int"),
        Rd("unknown_4", "read_int"),
        Rd("unknown_5", "read_int"),
        Rd("unknown_6", "read_int"),
        Rd("unknown_7", "read_vector"),
        Rd("checkpoint_lvl_object_name", "read_string"),
        Rd("unknown_8", "read_string"),
        Return(DictE(<<
            KV("obj_type", Str("SequinMaster")),
            KV("obj_name", Var("name")),
            KV("skybox_name", Str("skybox_cube")),
            KV("intro_lvl_name", Var("intro_lvl_obj_name")),
            KV("groupings", Var("lvl_groupings")),
            KV("checkpoint_lvl_name", Var("checkpoint_lvl_object_name")) >>)) >>]

\* num_beats, sequin, unknown_2 and sub_paths are assigned only under
\* `if not unknown_1` (sequin only under `if not should_skip_sequin`)
read_step ==
    [params |-> <<>>, body |-> <<
        (* 1 *)  Rd("unknown_1", "read_string"),
        (* 2 *)  IfNot(Not(Var("unknown_1")), 15),
        (* 3 *)      Rd("num_beats", "read_int"),
        (* 4 *)      Rd("should_skip_sequin", "read_bool"),
        (* 5 *)      IfNot(Not(Var("should_skip_sequin")), 7),
        (* 6 *)          Rd("sequin", "read_string"),
        (* 7 *)      Rd("unknown_2", "read_string"),
        (* 8 *)      Rd("num_sub_paths", "read_int"),
        (* 9 *)      Let("sub_paths", ListE(<<>>)),
        (* 10 *)     ForRange("_i", Var("num_sub_paths"), 15),
        (* 11 *)         Rd("unknown_3", "read_string"),
        (* 12 *)         Rd("unknown_4", "read_string"),
        (* 13 *)         ListAppend("sub_paths",
                             ListE(<<It(Var("unknown_3")), It(Var("unknown_4"))>>)),
        (* 14 *)         Jump(10),
        (* 15 *) Rd("step_type", "read_string"),
        (* 16 *) Rd("offset_between_current_and_prev_step", "read_int"),
        (* 17 *) Rd("transform", "read_transform"),
        (* 18 *) Rd("unknown_5", "read_bool"),
        (* 19 *) Rd("unknown_6", "read_bool"),
        (* 20 *) Return(DictE(<<
                     KV("beat_cnt", Var("num_beats")),
                     KV("leaf_name", Var("sequin")),
                     KV("main_path", Var("unknown_2")),
                     KV("sub_paths", Var("sub_paths")),
                     Spread(Var("transform")) >>)) >>]

\* while read_bool(file):
read_steps ==
    [params |-> <<>>, body |-> <<
        (* 1 *) Let("steps", ListE(<<>>)),
        (* 2 *) Rd("_while", "read_bool"),
        (* 3 *) IfNot(Var("_while"), 7),
        (* 4 *)     Rd("step", "read_step"),
        (* 5 *)     ListAppend("steps", Var("step")),
        (* 6 *)     Jump(2),
        (* 7 *) Return(Var("steps")) >>]

read_loop ==
    [params |-> <<>>, body |-> <<
        Rd("samp_object_name", "read_string"),
        Rd("num_beats_per_loop", "read_int"),
        Rd("ch_object_name", "read_int"),
        Return(DictE(<< KV("samp_name", Var("samp_object_name")),
                        KV("beats_per_loop", Var("num_beats_per_loop")) >>)) >>]

read_loops ==
    [params |-> <<>>, body |-> <<
        (* 1 *) Rd("num_loops", "read_int"),
        (* 2 *) Let("loops", ListE(<<>>)),
        (* 3 *) ForRange("_i", Var("num_loops"), 7),
        (* 4 *)     Rd("loop", "read_loop"),
        (* 5 *)     ListAppend("loops", Var("loop")),
        (* 6 *)     Jump(3),
        (* 7 *) Return(Var("loops")) >>]

read_lvl ==
    [params |-> <<"name">>, body |-> <<
        Rd("sequin_lvl_version_number", "read_int"),
        Rd("sequencer_objects_version_number", "read_int"),
        Rd("obj_version_number", "read_int"),
        Rd("_components", "read_components"),
        Unpack("approach_animation_component", "edit_state_component", Var("_components")),
        Rd("sequencer_objects", "read_sequencer_objects"),
        Rd("min_end_frame", "read_float"),
        Rd("move_type", "read_string"),
        Rd("move_sequin", "read_string"),
        Rd("steps", "read_steps"),
        Rd("loops", "read_loops"),
        Rd("unknown_1", "read_bool"),
        Rd("volume", "read_float"),
        Rd("start_flow", "read_string"),
        Rd("start_flow_trait_path", "read_trait_path"),
        Rd("start_flow_trait_type", "read_string"),
        Rd("is_input_allowed", "read_bool"),
        Rd("tutorial_type", "read_string"),
        Rd("start_angle_fracs", "read_vector"),
        Return(DictE(<<
            KV("obj_type", Str("SequinLevel")),
            KV("obj_name", Var("name")),
            Spread(Var("approach_animation_component")),
            KV("seq_objs", Var("sequencer_objects")),
            KV("leaf_seq", Var("steps")),
            KV("loops", Var("loops")),
            KV("volume", Var("volume")),
            KV("input_allowed", Var("is_input_allowed")),
            KV("tutorial_type", Var("tutorial_type")),
            KV("start_angle_fracs", Var("start_angle_fracs")) >>)) >>]

read_boss_pattern ==
    [params |-> <<>>, body |-> <<
        Rd("gate_level_script_node", "read_hash"),
        Rd("boss_pattern_lvl_object_name", "read_string"),
        Rd("unknown_1", "read_bool"),
        Rd("gate_sentry_type", "read_string"),
        Rd("unknown_2", "read_float"),
        Rd("bucket_num", "read_int"),
        Return(DictE(<<>>)) >>]

read_boss_patterns ==
    [params |-> <<>>, body |-> <<
        (* 1 *) Rd("num_boss_patterns", "read_int"),
        (* 2 *) Let("boss_patterns", ListE(<<>>)),
        (* 3 *) ForRange("_i", Var("num_boss_patterns"), 7),
        (* 4 *)     Rd("boss_pattern", "read_boss_pattern"),
        (* 5 *)     ListAppend("boss_patterns", Var("boss_pattern")),
        (* 6 *)     Jump(3),
        (* 7 *) Return(Var("boss_patterns")) >>]

read_gate ==
    [params |-> <<"name">>, body |-> <<
        Rd("sequin_gate_version_number", "read_int"),
        Rd("obj_version_number", "read_int"),
        Rd("components", "read_components"),
        Rd("spn_obj_name", "read_string"),
        Rd("ent_trait_path", "read_trait_path"),
        Rd("boss_patterns", "read_boss_patterns"),
        Rd("pre_boss_lvl_object_name", "read_string"),
        Rd("post_boss_lvl_object_name", "read_string"),
        Rd("restart_lvl_obj_name", "read_string"),
        Rd("unknown_1", "read_string"),
        Rd("component_type", "read_string"),
        Rd("unknown_2", "read_float"),
        Rd("level_random_type", "read_string"),
        Return(DictE(<<>>)) >>]

read_samp ==
    [params |-> <<"name">>, body |-> <<
        Rd("sample_version_number", "read_int"),
        Rd("obj_version_number", "read_int"),
        Rd("components", "read_components"),
        Rd("sample_play_mode", "read_string"),
        Rd("file_path", "read_file_path"),
        Rd("should_stream", "read_bool"),
        Rd("loop_count", "read_int"),
        Rd("volume", "read_float"),
        Rd("pitch", "read_float"),
        Rd("pan", "read_float"),
        Rd("offset", "read_float"),
        Rd("channel_group", "read_string"),
        Return(DictE(<< KV("items", ListE(<< It(DictE(<<
            KV("obj_type", Str("Sample")),
            KV("obj_name", Var("name")),
            KV("mode", Var("sample_play_mode")),
            KV("path", Var("file_path")),
            KV("volume", Var("volume")),
            KV("pitch", Var("pitch")),
            KV("pan", Var("pan")),
            KV("offset", Var("offset")),
            KV("channel_group", Var("channel_group")) >>)) >>)) >>)) >>]

read_spn ==
    [params |-> <<"name">>, body |-> <<
        Rd("entity_spawner_version_number", "read_int"),
        Rd("obj_version_number", "read_int"),
        Rd("_components", "read_components"),
        Unpack("edit_state_component", "transform_component", Var("_components")),
        Rd("entity_objlib_file_path", "read_file_path"),
        Rd("render_bucket", "read_string"),
        Return(DictE(<< KV("items", ListE(<< It(DictE(<<
            KV("obj_type", Str("EntitySpawner")),
            KV("obj_name", Var("name")),
            Spread(Var("transform_component")),
            KV("objlib_path", Var("entity_objlib_file_path")),
            KV("bucket", Var("render_bucket")) >>)) >>)) >>)) >>]

read_tex ==
    [params |-> <<"name">>, body |-> <<
        Rd("tex_2d_version_number", "read_int"),
        Rd("obj_version_number", "read_int"),
        Rd("components", "read_components"),
        Rd("compression", "read_string"),
        Rd("has_mips", "read_bool"),
        Rd("file_path", "read_file_path"),
        Return(DictE(<<>>)) >>]

read_mat ==
    [params |-> <<"name">>, body |-> <<
        Rd("mat_version_number", "read_int"),
        Rd("obj_version_number", "read_int"),
        Rd("components", "read_components"),
        Rd("decal_map", "read_string"),
        Rd("emissive_map", "read_string"),
        Rd("reflection_map", "read_string"),
        Rd("blending", "read_string"),
        Rd("material_lighting", "read_int"),
        Rd("cull_mode", "read_string"),
        Rd("z_mode", "read_string"),
        Rd("unknown_1", "read_bool"),
        Rd("unknown_2", "read_bool"),
        Rd("material_filtering", "read_string"),
        Rd("emissive_color", "read_color"),
        Rd("ambient_color", "read_color"),
        Rd("diffuse_color", "read_color"),
        Rd("specular_color", "read_color"),
        Rd("reflectivity_color", "read_color"),
        Rd("alpha", "read_float"),
        Rd("unknown_3", "read_float"),
        Rd("specular_map", "read_string"),
        Rd("texture_transform_mode", "read_string"),
        Rd("texture_transform", "read_transform"),
        Rd("unknown_4", "read_float"),
        Rd("should_disable_noise_vignette_when_low_spec_rendering_used", "read_bool"),
        Rd("noise_vignette_object_name", "read_string"),
        Rd("unknown_5", "read_bool"),
        Return(DictE(<<>>)) >>]

read_mesh ==
    [params |-> <<"name">>, body |-> <<
        (* 1 *)  Rd("mesh_version_number", "read_int"),
        (* 2 *)  Rd("obj_version_number", "read_int"),
        (* 3 *)  Rd("components", "read_components"),
        (* 4 *)  Rd("mat_object_name", "read_string"),
        (* 5 *)  Rd("is_mesh_data_defined_in_object", "read_string"),
        (* 6 *)  IfNot(Var("is_mesh_data_defined_in_object"), 22),
        (* 7 *)      Rd("num_vertices", "read_int"),
        (* 8 *)      ForRange("_i", Var("num_vertices"), 13),
        (* 9 *)          Rd("vertex_position", "read_vector"),
        (* 10 *)         Rd("vertex_normal", "read_vector"),
        (* 11 *)         Rd("vertex_uvw", "read_vector"),
        (* 12 *)         Jump(8),
        (* 13 *)     Rd("num_faces", "read_int"),
        (* 14 *)     ForRange("_j", Var("num_faces"), 19),
        (* 15 *)         Rd("vertex_index_1", "read_short"),
        (* 16 *)         Rd("vertex_index_2", "read_short"),
        (* 17 *)         Rd("vertex_index_3", "read_short"),
        (* 18 *)         Jump(14),
        (* 19 *)     Rd("unknown_1", "read_bool"),
        (* 20 *)     Rd("unknown_2", "read_bool"),
        (* 21 *)     Jump(28),
        (* 22 *)     Rd("file_path", "read_file_path"),
        (* 23 *)     Rd("cache_name_param_1", "read_int"),
        (* 24 *)     Rd("cache_name_param_2", "read_int"),
        (* 25 *)     Rd("cache_name_param_3", "read_int"),
        (* 26 *)     Rd("cache_name_param_4", "read_bool"),
        (* 27 *)     Rd("cache_name_param_5", "read_int"),
        (* 28 *) Return(DictE(<<>>)) >>]

read_path ==
    [params |-> <<"name">>, body |-> <<
        (* 1 *)  Rd("path_version_number", "read_int"),
        (* 2 *)  Rd("obj_version_number", "read_int"),
        (* 3 *)  Rd("components", "read_components"),
        (* 4 *)  Rd("tile_scale", "read_vector"),
        (* 5 *)  Rd("tile_size", "read_vector"),
        (* 6 *)  Rd("lane_spacing", "read_float"),
        (* 7 *)  Rd("mesh_object_name", "read_string"),
        (* 8 *)  Rd("does_bend", "read_bool"),
        (* 9 *)  Rd("bend_scale_interpolation_method", "read_string"),
        (* 10 *) Rd("does_pulse_color", "read_bool"),
        (* 11 *) Rd("does_pulse_scale", "read_bool"),
        (* 12 *) Rd("v_scale", "read_float"),
        (* 13 *) Rd("num_path_decorators", "read_int"),
        (* 14 *) ForRange("_i", Var("num_path_decorators"), 17),
        (* 15 *)     Rd("path_decorator_name", "read_string"),
        (* 16 *)     Jump(14),
        (* 17 *) Rd("is_visible", "read_bool"),
        (* 18 *) Return(DictE(<<>>)) >>]

(***************************************************************************)
(* file_parser.py: the object library and the file                         *)
(***************************************************************************)
read_level_object_declaration ==
    [params |-> <<>>, body |-> <<
        Rd("object_name", "read_string"),
        Rd("object_type", "read_hash"),
        Let("object_reader", Index(Glob("level_object_readers"), Var("object_type"))),
        Return(TupleE(<<It(Var("object_name")), It(Var("object_reader"))>>)) >>]

\* read_level_object_declarations calling each reader as soon as its
\* declaration is read
read_level_object_declarations_interleaved ==
    [params |-> <<>>, body |-> <<
        (* 1 *) Rd("num_objects", "read_int"),
        (* 2 *) Let("object_declarations", ListE(<<>>)),
        (* 3 *) ForRange("_i", Var("num_objects"), 8),
        (* 4 *)     Rd("object_declaration", "read_level_object_declaration"),
        (* 5 *)     Call("object", Index(Var("object_declaration"), Num(1)),
                         <<It(Index(Var("object_declaration"), Num(0)))>>),
        (* 6 *)     ListAppend("object_declarations", Var("object_declaration")),
        (* 7 *)     Jump(3),
        (* 8 *) Return(Var("object_declarations")) >>]

read_level_object_declarations ==
    [params |-> <<>>, body |-> <<
        (* 1 *) Rd("num_objects", "read_int"),
        (* 2 *) Let("object_declarations", ListE(<<>>)),
        (* 3 *) ForRange("_i", Var("num_objects"), 7),
        (* 4 *)     Rd("object_declaration", "read_level_object_declaration"),
        (* 5 *)     ListAppend("object_declarations", Var("object_declaration")),
        (* 6 *)     Jump(3),
        (* 7 *) Return(Var("object_declarations")) >>]

\* read_level_objlib taking four more bytes after each object
read_level_objlib_padded ==
    [params |-> <<>>, body |-> <<
        (* 1 *)  Rd("unknown_1", "read_int"),
        (* 2 *)  Rd("unknown_2", "read_int"),
        (* 3 *)  Rd("unknown_3", "read_int"),
        (* 4 *)  Rd("unknown_4", "read_int"),
        (* 5 *)  Rd("global_libraries", "read_global_libraries"),
        (* 6 *)  Rd("original_file_path", "read_string"),
        (* 7 *)  Rd("external_objects", "read_level_external_objects"),
        (* 8 *)  Rd("object_declarations", "read_level_object_declarations"),
        (* 9 *)  ForEach("object_declaration", "_i", Var("object_declarations"), 13),
        (* 10 *)     Call("object", Index(Var("object_declaration"), Num(1)),
                          <<It(Index(Var("object_declaration"), Num(0)))>>),
        (* 11 *)     Rd("padding", "read_hash"),
        (* 12 *)     Jump(9) >>]

\* no return statement: the objects are read and dropped, the function
\* returns None
read_level_objlib ==
    [params |-> <<>>, body |-> <<
        (* 1 *)  Rd("unknown_1", "read_int"),
        (* 2 *)  Rd("unknown_2", "read_int"),
        (* 3 *)  Rd("unknown_3", "read_int"),
        (* 4 *)  Rd("unknown_4", "read_int"),
        (* 5 *)  Rd("global_libraries", "read_global_libraries"),
        (* 6 *)  Rd("original_file_path", "read_string"),
        (* 7 *)  Rd("external_objects", "read_level_external_objects"),
        (* 8 *)  Rd("object_declarations", "read_level_object_declarations"),
        (* 9 *)  ForEach("object_declaration", "_i", Var("object_declarations"), 12),
        (* 10 *)     Call("object", Index(Var("object_declaration"), Num(1)),
                          <<It(Index(Var("object_declaration"), Num(0)))>>),
        (* 11 *)     Jump(9) >>]

read_objlib_file ==
    [params |-> <<>>, body |-> <<
        Rd("objlib_type", "read_hash"),
        Let("objlib_reader", Index(Glob("objlib_readers"), Var("objlib_type"))),
        Call("_result", Var("objlib_reader"), <<>>),
        Return(Var("_result")) >>]

read_file ==
    [params |-> <<>>, body |-> <<
        Rd("file_type", "read_int"),
        Let("file_reader", Index(Glob("file_readers"), Var("file_type"))),
        Call("_result", Var("file_reader"), <<>>),
        Return(Var("_result")) >>]

(***************************************************************************)
(* leaf_parser.py: the data-point readers                                  *)
(***************************************************************************)
read_rgba ==
    [params |-> <<>>, body |-> <<
        Rd("r", "read_float"),
        Rd("g", "read_float"),
        Rd("b", "read_float"),
        Rd("a", "read_float"),
        Return(TupleE(<<It(Var("r")), It(Var("g")), It(Var("b")), It(Var("a"))>>)) >>]

\* no test of the reader before the time is read
leaf_read_data_point ==
    [params |-> <<"trait_type">>, body |-> <<
        Let("data_point_reader", Index(Glob("leaf_data_point_readers"), Var("trait_type"))),
        Rd("time", "read_float"),
        Call("data_point", Var("data_point_reader"), <<>>),
        Rd("interpolation_method", "read_string"),
        Rd("easing_method", "read_string"),
        Return(TupleE(<<It(Var("time")), It(Var("data_point"))>>)) >>]

leaf_read_data_points ==
    [params |-> <<"trait_type">>, body |-> <<
        (* 1 *) Rd("num_data_points", "read_int"),
        (* 2 *) Let("data_points", DictE(<<>>)),
        (* 3 *) ForRange("_i", Var("num_data_points"), 7),
        (* 4 *)     Call("data_point", Fn("leaf_read_data_point"), <<It(Var("trait_type"))>>),
        (* 5 *)     SetItem("data_points", Index(Var("data_point"), Num(0)),
                                           Index(Var("data_point"), Num(1))),
        (* 6 *)     Jump(3),
        (* 7 *) Return(Var("data_points")) >>]

leaf_read_animation_component_section ==
    [params |-> <<>>, body |-> <<
        Rd("animation_component_version_number", "read_int"),
        Rd("frame", "read_float"),
        Rd("unit_of_time", "read_string"),
        Return(DictE(<<>>)) >>]

leaf_read_edit_state_component_section ==
    [params |-> <<>>, body |-> <<
        Return(DictE(<<>>)) >>]

leaf_read_section ==
    [params |-> <<>>, body |-> <<
        Rd("section_marker", "read_hash"),
        Let("section_reader", Index(Glob("leaf_section_readers"), Var("section_marker"))),
        Call("_result", Var("section_reader"), <<>>),
        Return(Var("_result")) >>]

leaf_read_sections ==
    [params |-> <<>>, body |-> <<
        (* 1 *) Rd("num_sections", "read_int"),
        (* 2 *) Let("sections", ListE(<<>>)),
        (* 3 *) ForRange("_i", Var("num_sections"), 7),
        (* 4 *)     Rd("section", "leaf_read_section"),
        (* 5 *)     ListAppend("sections", Var("section")),
        (* 6 *)     Jump(3),
        (* 7 *) Return(Var("sections")) >>]

leaf_read_trait_path ==
    [params |-> <<>>, body |-> <<
        (* 1 *) Rd("num_sub_levels", "read_int"),
        (* 2 *) Let("sub_levels", ListE(<<>>)),
        (* 3 *) ForRange("_i", Var("num_sub_levels"), 8),
        (* 4 *)     Rd("member", "read_hash"),
        (* 5 *)     Rd("member_index", "read_int"),
        (* 6 *)     ListAppend("sub_levels",
                        Cond(Eq(Var("member_index"), Num(-1)),
                             Var("member"),
                             TupleE(<<It(Var("member")), It(Var("member_index"))>>))),
        (* 7 *)     Jump(3),
        (* 8 *) Return(Var("sub_levels")) >>]

\* the object name and the last bool are read by the section reader below
leaf_read_sequencer_object ==
    [params |-> <<>>, body |-> <<
        Rd("trait_path", "leaf_read_trait_path"),
        Rd("trait_type", "read_int"),
        Call("data_points", Fn("leaf_read_data_points"), <<It(Var("trait_type"))>>),
        Call("ui_elements", Fn("leaf_read_data_points"), <<It(Var("trait_type"))>>),
        Rd("line_animation_type", "read_int"),
        Rd("default_trait_interpolation_method", "read_int"),
        Rd("default_trait_easing_method", "read_int"),
        Rd("unused_1", "read_int"),
        Rd("unused_2", "read_int"),
        Rd("intensity_operation_1", "read_string"),
        Rd("intensity_operation_2", "read_string"),
        Rd("has_intensity_phase", "read_bool"),
        Rd("trait_setter_op", "read_bool"),
        Rd("step_frequency", "read_int"),
        Rd("unused_3", "read_float"),
        Rd("unused_4", "read_rgba"),
        Rd("intensity_scale", "read_bool"),
        Rd("unused_5", "read_bool"),
        Return(DictE(<<
            KV("param_path", Index(Var("trait_path"), Num(0))),
            KV("trait_type", Index(Glob("leaf_trait_type_names"), Var("trait_type"))),
            KV("data_points", Var("data_points")),
            KV("step", Str("False")),
            KV("footer", ListE(<<
                It(Var("line_animation_type")),
                It(Var("default_trait_easing_method")),
                It(Var("default_trait_interpolation_method")),
                It(Var("unused_1")),
                It(Var("unused_2")),
                It(Var("intensity_operation_1")),
                It(Var("intensity_operation_2")),
                It(IntOf(Var("has_intensity_phase"))),
                It(IntOf(Var("trait_setter_op"))),
                It(Var("step_frequency")),
                It(Var("unused_3")),
                Star(Var("unused_4")),
                It(IntOf(Var("intensity_scale"))),
                It(IntOf(Var("unused_5"))) >>)) >>)) >>]

\* a section reader that leaves the last bool of the object unread
leaf_read_trait_animation_sequencer_object_section_short ==
    [params |-> <<>>, body |-> <<
        Rd("object_name", "read_string"),
        Rd("sequencer_object", "leaf_read_sequencer_object"),
        Return(DictE(<< KV("obj_name", Var("object_name")),
                        Spread(Var("sequencer_object")) >>)) >>]

leaf_read_trait_animation_sequencer_object_section ==
    [params |-> <<>>, body |-> <<
        Rd("object_name", "read_string"),
        Rd("sequencer_object", "leaf_read_sequencer_object"),
        Rd("unknown", "read_bool"),
        Return(DictE(<< KV("obj_name", Var("object_name")),
                        Spread(Var("sequencer_object")) >>)) >>]

leaf_read_trait_animation ==
    [params |-> <<>>, body |-> <<
        (* 1 *) Rd("num_sequencer_objects", "read_int"),
        (* 2 *) Let("sequencer_objects", ListE(<<>>)),
        (* 3 *) ForRange("_i", Var("num_sequencer_objects"), 7),
        (* 4 *)     Rd("sequencer_object_section",
                       "leaf_read_trait_animation_sequencer_object_section"),
        (* 5 *)     ListAppend("sequencer_objects", Var("sequencer_object_section")),
        (* 6 *)     Jump(3),
        (* 7 *) Return(Var("sequencer_objects")) >>]

\* leaf_parser.py has its own read_vector, the same statements as file_parser.py's
leaf_read_leaf ==
    [params |-> <<"name">>, body |-> <<
        (* 1 *)  Rd("sequin_leaf_version_number", "read_int"),
        (* 2 *)  Rd("trait_anim_version_number", "read_int"),
        (* 3 *)  Rd("obj_version_number", "read_int"),
        (* 4 *)  Rd("sections", "leaf_read_sections"),
        (* 5 *)  Rd("trait_animation", "leaf_read_trait_animation"),
        (* 6 *)  Rd("num_beats", "read_int"),
        (* 7 *)  Rd("path_phase", "read_float"),
        (* 8 *)  Rd("tile_phase", "read_float"),
        (* 9 *)  ForRange("_i", Var("num_beats"), 12),
        (* 10 *)     Rd("unused", "read_vector"),
        (* 11 *)     Jump(9),
        (* 12 *) Rd("turn_lane_offset", "read_int"),
        (* 13 *) Return(DictE(<< KV("obj_type", Str("SequinLeaf")),
                                 KV("obj_name", Var("name")),
                                 KV("seq_objs", Var("trait_animation")),
                                 KV("beat_cnt", Var("num_beats")) >>)) >>]

(***************************************************************************)
(* The caller: result = entry(file, *args), as main() calls read_leaf      *)
(***************************************************************************)
caller ==
    [params |-> <<>>, body |-> <<
        Call("result", Var("_entry"), <<Star(Var("_args"))>>),
        Return(Var("result")) >>]

\* main (file_parser.py:687-695): leaf = read_leaf(leaf_file, leaf_path), then
\* leaf_file.write(format_fake_json(leaf)); the reader is a parameter here
main ==
    [params |-> <<>>, body |-> <<
        (* 1 *) Call("leaf", Var("_entry"), <<Star(Var("_args"))>>),
        (* 2 *) Let("text", Format(Var("leaf"))),
        (* 3 *) Return(Var("text")) >>]

Function(fn) ==
    CASE fn = "caller" -> caller
      [] fn = "main" -> main
      [] fn = "read_vector" -> read_vector
      [] fn = "read_color" -> read_color
      [] fn = "read_transform" -> read_transform
      [] fn = "read_file_path" -> read_file_path
      [] fn = "read_rgba" -> read_rgba
      [] fn = "read_animation_component" -> read_animation_component
      [] fn = "read_edit_state_component" -> read_edit_state_component
      [] fn = "read_approach_animation_component" -> read_approach_animation_component
      [] fn = "read_transform_component" -> read_transform_component
      [] fn = "read_draw_component" -> read_draw_component
      [] fn = "read_component" -> read_component
      [] fn = "read_components" -> read_components
      [] fn = "read_trait_path" -> read_trait_path
      [] fn = "read_data_point" -> read_data_point
      [] fn = "read_data_points" -> read_data_points
      [] fn = "read_sequencer_object" -> read_sequencer_object
      [] fn = "read_sequencer_objects" -> read_sequencer_objects
      [] fn = "read_leaf" -> read_leaf
      [] fn = "read_global_library" -> read_global_library
      [] fn = "read_global_libraries" -> read_global_libraries
      [] fn = "read_level_external_object" -> read_level_external_object
      [] fn = "read_level_external_objects" -> read_level_external_objects
      [] fn = "read_lvl_grouping" -> read_lvl_grouping
      [] fn = "read_lvl_groupings" -> read_lvl_groupings
      [] fn = "read_master" -> read_master
      [] fn = "read_step" -> read_step
      [] fn = "read_steps" -> read_steps
      [] fn = "read_loop" -> read_loop
      [] fn = "read_loops" -> read_loops
      [] fn = "read_lvl" -> read_lvl
      [] fn = "read_boss_pattern" -> read_boss_pattern
      [] fn = "read_boss_patterns" -> read_boss_patterns
      [] fn = "read_gate" -> read_gate
      [] fn = "read_samp" -> read_samp
      [] fn = "read_spn" -> read_spn
      [] fn = "read_tex" -> read_tex
      [] fn = "read_mat" -> read_mat
      [] fn = "read_mesh" -> read_mesh
      [] fn = "read_path" -> read_path
      [] fn = "read_level_object_declaration" -> read_level_object_declaration
      [] fn = "read_level_object_declarations" -> read_level_object_declarations
      [] fn = "read_level_objlib" -> read_level_objlib
      [] fn = "read_objlib_file" -> read_objlib_file
      [] fn = "read_file" -> read_file
      [] fn = "leaf_read_data_point" -> leaf_read_data_point
      [] fn = "leaf_read_data_points" -> leaf_read_data_points
      [] fn = "leaf_read_animation_component_section" -> leaf_read_animation_component_section
      [] fn = "leaf_read_edit_state_component_section" -> leaf_read_edit_state_component_section
      [] fn = "leaf_read_section" -> leaf_read_section
      [] fn = "leaf_read_sections" -> leaf_read_sections
      [] fn = "leaf_read_trait_path" -> leaf_read_trait_path
      [] fn = "leaf_read_sequencer_object" -> leaf_read_sequencer_object
      [] fn = "leaf_read_trait_animation_sequencer_object_section" ->
             leaf_read_trait_animation_sequencer_object_section
      [] fn = "leaf_read_trait_animation" -> leaf_read_trait_animation
      [] fn = "leaf_read_leaf" -> leaf_read_leaf

(***************************************************************************)
(* Running the statements                                                  *)
(***************************************************************************)
Top      == stack[Len(stack)]
Body     == Function(Top.fn).body
AtEnd    == Top.pc > Len(Body)
Stmt     == Body[Top.pc]
Running  == status = "running" /\ Len(stack) > 0
At(op)   == Running /\ ~AtEnd /\ Stmt.op = op

SetEnv(env, n, x) == [m \in DOMAIN env \cup {n} |-> IF m = n THEN x ELSE env[m]]
DelEnv(env, n)    == [m \in DOMAIN env \ {n} |-> env[m]]
EmptyEnv          == [m \in {} |-> VNone]

RECURSIVE BindParams(_, _, _)
BindParams(env, params, args) ==
    IF Len(params) = 0 THEN env
    ELSE CHOOSE r \in {BindParams(env1, Tail(params), Tail(args)) :
                           env1 \in {SetEnv(env, params[1], args[1])}} : TRUE

\* the top frame moves to statement pc with local variables env
Goto(pc, env) ==
    /\ stack' = [stack EXCEPT ![Len(stack)] = [@ EXCEPT !.pc = pc, !.env = env]]
    /\ UNCHANGED <<buf, pos, entry, status, err, ret, log>>

\* an exception: nothing in the decoder catches it
Throw(e, p) ==
    /\ status' = "failed"
    /\ err' = e
    /\ pos' = p
    /\ UNCHANGED <<buf, entry, stack, ret, log>>

\* the top frame returns x to its caller
Pop(x) ==
    /\ log' = IF Top.li = 0 THEN log
              ELSE [log EXCEPT ![Top.li] = [@ EXCEPT !.stop = pos, !.val = x]]
    /\ IF Len(stack) = 1
       THEN /\ status' = "done"
            /\ ret' = x
            /\ stack' = <<>>
       ELSE LET below == stack[Len(stack) - 1]
                resumed == [below EXCEPT !.pc = @ + 1,
                                          !.env = SetEnv(@, Top.dst, x)]
            IN  /\ stack' = Append(SubSeq(stack, 1, Len(stack) - 2), resumed)
                /\ UNCHANGED <<status, ret>>
    /\ UNCHANGED <<buf, pos, entry, err>>

\* what a call statement calls, and with what
Callee == Eval(Stmt.f, Top.env)
Args   == EvalSeq(Stmt.args, Top.env, <<>>)
CallOk ==
    /\ Callee.err = ""
    /\ Callee.val.t = "function"
    /\ Args.err = ""
    /\ IF Callee.val.v \in PrimFns THEN Len(Args.val) = 0
       ELSE Len(Args.val) = Len(Function(Callee.val.v).params)

\* dst = f(file) for a reader of the primitive codec
CallPrim ==
    /\ At("call")
    /\ CallOk
    /\ Callee.val.v \in PrimFns
    /\ LET r == Prim(Callee.val.v, buf, pos)
       IN  IF r.err # "" THEN Throw(r.err, r.pos)
           ELSE /\ pos' = r.pos
                /\ stack' = [stack EXCEPT ![Len(stack)] =
                       [@ EXCEPT !.pc = @ + 1, !.env = SetEnv(@, Stmt.dst, r.val)]]
                /\ UNCHANGED <<buf, entry, status, err, ret, log>>

\* dst = f(file, args...) for a function given by its statements
CallFn ==
    /\ At("call")
    /\ CallOk
    /\ Callee.val.v \notin PrimFns
    /\ log' = Append(log, [fn |-> Callee.val.v, args |-> Args.val, by |-> Top.fn,
                           start |-> pos, stop |-> -1, val |-> VNone])
    /\ stack' = Append(stack,
           [fn |-> Callee.val.v, pc |-> 1,
            env |-> BindParams(EmptyEnv, Function(Callee.val.v).params, Args.val),
            dst |-> Stmt.dst, li |-> Len(log) + 1])
    /\ UNCHANGED <<buf, pos, entry, status, err, ret>>

\* a call that raises before the callee runs
CallBad ==
    /\ At("call")
    /\ ~CallOk
    /\ Throw(IF Callee.err # "" THEN Callee.err
             ELSE IF Callee.val.t = "undefined" THEN "NameError"
             ELSE IF Callee.val.t # "function" THEN "TypeError"
             ELSE IF Args.err # "" THEN Args.err
             ELSE "TypeError", pos)

LetStep ==
    /\ At("let")
    /\ LET x == Eval(Stmt.e, Top.env)
       IN  IF x.err # "" THEN Throw(x.err, pos)
           ELSE Goto(Top.pc + 1, SetEnv(Top.env, Stmt.dst, x.val))

AppendStep ==
    /\ At("append")
    /\ LET x == Eval(Stmt.e, Top.env)
       IN  IF x.err # "" THEN Throw(x.err, pos)
           ELSE Goto(Top.pc + 1,
                     SetEnv(Top.env, Stmt.lst, VList(Append(Top.env[Stmt.lst].v, x.val))))

SetItemStep ==
    /\ At("setitem")
    /\ LET key == Eval(Stmt.ke, Top.env)
           x == Eval(Stmt.ve, Top.env)
       IN  IF x.err # "" THEN Throw(x.err, pos)
           ELSE IF key.err # "" THEN Throw(key.err, pos)
           ELSE Goto(Top.pc + 1,
                     SetEnv(Top.env, Stmt.d, VDict(DictSet(Top.env[Stmt.d].v, key.val, x.val))))

\* for _ in range(n)
ForStep ==
    /\ At("for")
    /\ LET n == Eval(Stmt.n, Top.env)
           i == IF Stmt.ctr \in DOMAIN Top.env THEN Top.env[Stmt.ctr].v ELSE 0
       IN  IF n.err # "" THEN Throw(n.err, pos)
           ELSE IF n.val.t # "int" THEN Throw("TypeError", pos)
           ELSE IF i < n.val.v
           THEN Goto(Top.pc + 1, SetEnv(Top.env, Stmt.ctr, VInt(i + 1)))
           ELSE Goto(Stmt.exit, DelEnv(Top.env, Stmt.ctr))

\* for x in lst
ForEachStep ==
    /\ At("foreach")
    /\ LET lst == Eval(Stmt.lst, Top.env)
           i == IF Stmt.ctr \in DOMAIN Top.env THEN Top.env[Stmt.ctr].v ELSE 0
       IN  IF lst.err # "" THEN Throw(lst.err, pos)
           ELSE IF lst.val.t \notin {"list", "tuple"} THEN Throw("TypeError", pos)
           ELSE IF i < Len(lst.val.v)
           THEN Goto(Top.pc + 1,
                     SetEnv(SetEnv(Top.env, Stmt.ctr, VInt(i + 1)), Stmt.x, lst.val.v[i + 1]))
           ELSE Goto(Stmt.exit, DelEnv(Top.env, Stmt.ctr))

JumpStep ==
    /\ At("jump")
    /\ Goto(Stmt.to, Top.env)

IfNotStep ==
    /\ At("ifnot")
    /\ LET c == Eval(Stmt.e, Top.env)
       IN  IF c.err # "" THEN Throw(c.err, pos)
           ELSE IF Truthy(c.val) THEN Goto(Top.pc + 1, Top.env)
           ELSE Goto(Stmt.to, Top.env)

\* [a, b] = e
UnpackStep ==
    /\ At("unpack")
    /\ LET x == Eval(Stmt.e, Top.env)
       IN  IF x.err # "" THEN Throw(x.err, pos)
           ELSE IF x.val.t \notin {"list", "tuple"} THEN Throw("TypeError", pos)
           ELSE IF Len(x.val.v) # 2 THEN Throw("ValueError", pos)
           ELSE Goto(Top.pc + 1,
                     SetEnv(SetEnv(Top.env, Stmt.a, x.val.v[1]), Stmt.b, x.val.v[2]))

RaiseStep ==
    /\ At("raise")
    /\ Throw(Stmt.x, pos)

ReturnStep ==
    /\ At("return")
    /\ LET x == Eval(Stmt.e, Top.env)
       IN  IF x.err # "" THEN Throw(x.err, pos) ELSE Pop(x.val)

\* the end of a function with no return statement
FallOff ==
    /\ Running
    /\ AtEnd
    /\ Pop(VNone)

Next ==
    \/ CallPrim
    \/ CallFn
    \/ CallBad
    \/ LetStep
    \/ AppendStep
    \/ SetItemStep
    \/ ForStep
    \/ ForEachStep
    \/ JumpStep
    \/ IfNotStep
    \/ UnpackStep
    \/ RaiseStep
    \/ ReturnStep
    \/ FallOff

(***************************************************************************)
(* The files the decoder is run on.  They are built the way the format     *)
(* lays them out: little-endian int32, length-prefixed text, one-byte      *)
(* bool, TypeCodes with their bytes reversed.                              *)
(***************************************************************************)
EncInt(n) ==
    LET m == IF n < 0 THEN (n + 2147483647) + 1 ELSE n
    IN  << m % 256, (m \div 256) % 256, (m \div 65536) % 256,
           (m \div 16777216) + (IF n < 0 THEN 128 ELSE 0) >>
EncStr(s)  == EncInt(Len(s)) \o s
EncBool(b) == << IF b THEN 1 ELSE 0 >>
\* a TypeCode, given by the bytes of its hex text, as it lies in the file
EncHash(code) == Reversed(code)

RECURSIVE Concat(_)
Concat(ss) == IF Len(ss) = 0 THEN <<>> ELSE ss[1] \o Concat(Tail(ss))

Prefixes(b) == { SubSeq(b, 1, n) : n \in 0..Len(b) }

\* float32 bit patterns, in file order
F_1   == <<0, 0, 128, 63>>     \* 1.0
F_2   == <<0, 0, 0, 64>>       \* 2.0
F_0   == <<0, 0, 0, 0>>        \* 0.0
F_m0  == <<0, 0, 0, 128>>      \* -0.0
F_nan == <<0, 0, 192, 127>>    \* nan
F_h   == <<0, 0, 0, 63>>       \* 0.5

T_foo_mesh == <<102, 111, 111, 46, 109, 101, 115, 104>>   \* "foo.mesh"
T_a        == <<97>>                                      \* "a"
T_b        == <<98>>                                      \* "b"
T_e_acute  == <<195, 169>>                                \* "é" in UTF-8

\* the first state of a run: the caller is about to call fn(file, args...)
Start(fn, args, b) ==
    /\ buf = b
    /\ pos = 0
    /\ entry = [fn |-> fn, args |-> args]
    /\ stack = << [fn |-> "caller", pc |-> 1,
                   env |-> SetEnv(SetEnv(EmptyEnv, "_entry", VFn(fn)), "_args", VTuple(args)),
                   dst |-> "", li |-> 0] >>
    /\ status = "running"
    /\ err = ""
    /\ ret = VNone
    /\ log = <<>>

\* the first state of a run of main with reader fn
StartMain(fn, args, b) ==
    /\ buf = b
    /\ pos = 0
    /\ entry = [fn |-> "main", args |-> <<VFn(fn)>> \o args]
    /\ stack = << [fn |-> "main", pc |-> 1,
                   env |-> SetEnv(SetEnv(EmptyEnv, "_entry", VFn(fn)), "_args", VTuple(args)),
                   dst |-> "", li |-> 0] >>
    /\ status = "running"
    /\ err = ""
    /\ ret = VNone
    /\ log = <<>>

\* TypeCodes, as the bytes of their hex text
TC_Leaf         == <<206, 126, 133, 246>>   \* 'ce7e85f6'
TC_Samp         == <<122, 168, 243, 144>>   \* '7aa8f390'
TC_Spn          == <<216, 151, 213, 219>>   \* 'd897d5db'
TC_Drawer       == <<211, 5, 139, 93>>      \* 'd3058b5d'
TC_Objlib       == <<11, 55, 77, 158>>      \* '0b374d9e'
TC_Animation    == <<99, 37, 159, 10>>      \* '63259f0a'
TC_EditState    == <<60, 142, 251, 18>>     \* '3c8efb12'
TC_ApproachAnim == <<108, 45, 51, 115>>     \* '6c2d3373'
TC_Transform    == <<132, 231, 97, 235>>    \* '84e761eb'
TC_Draw         == <<249, 39, 25, 238>>     \* 'f92719ee'
TC_Tex          == <<150, 186, 138, 112>>   \* '96ba8a70'
TC_Master       == <<73, 7, 128, 185>>      \* '490780b9'
TC_Lvl          == <<188, 209, 116, 115>>   \* 'bcd17473'
TC_Mesh         == <<191, 105, 241, 21>>    \* 'bf69f115'
TC_Path         == <<72, 144, 163, 246>>    \* '4890a3f6'
TC_Gate         == <<170, 99, 165, 8>>      \* 'aa63a508'
TC_None         == <<1, 2, 3, 4>>           \* '01020304', in no registry

\* every short file over a small alphabet of bytes, for the scalar readers
MaxRawLen    == 5
ByteAlphabet == {0, 2, 255}
RawBufs      == UNION { [1..n -> ByteAlphabet] : n \in 0..MaxRawLen }
ScalarFns    == {"read_int", "read_short", "read_float", "read_bool",
                 "read_string", "read_hash"}
InitRaw ==
    \E fn \in ScalarFns, b \in RawBufs : Start(fn, <<>>, b)

\* the longer primitive readers, on every prefix of a well-formed input
RootIndexes == {0, 2, -1}
FilePathBufs ==
    { EncInt(r) \o EncStr(t) : r \in RootIndexes, t \in {<<>>, T_foo_mesh, T_e_acute} }
TransformBuf ==
    Concat(<< F_1, F_2, F_0,  F_1, F_0, F_0,  F_0, F_1, F_0,  F_0, F_0, F_1,  F_h, F_h, F_h >>)
InitPrim ==
    \/ \E b \in FilePathBufs : \E c \in Prefixes(b) : Start("read_file_path", <<>>, c)
    \/ \E c \in Prefixes(TransformBuf) : Start("read_transform", <<>>, c)
    \/ \E c \in Prefixes(Concat(<<F_1, F_2, F_h>>)) : Start("read_vector", <<>>, c)
    \/ \E c \in Prefixes(Concat(<<F_1, F_2, F_h, F_0>>)) : Start("read_color", <<>>, c)
    \/ \E c \in Prefixes(TC_Leaf) \cup Prefixes(EncHash(TC_Leaf)) :
           Start("read_hash", <<>>, c)
    \/ \E c \in Prefixes(EncStr(T_e_acute)) \cup {EncStr(<<195>>), EncStr(<<169, 195>>)} :
           Start("read_string", <<>>, c)

\* data points: every trait type the list can and cannot be indexed with,
\* on every prefix of a point laid out for the reader of that type
NumTraitTypes == 20
TraitTypes    == (-NumTraitTypes - 1)..NumTraitTypes
PointValue(trait_type) ==
    LET t == trait_type % NumTraitTypes
    IN  CASE t = 0 -> EncInt(7)
          [] t \in {1, 8} -> EncBool(TRUE)
          [] t = 2 -> F_h
          [] t = 3 -> Concat(<<F_1, F_h, F_0, F_1>>)
          [] OTHER -> EncInt(7)
PointBuf(time, value) == time \o value \o EncStr(T_a) \o EncStr(<<>>)
DataPointFns == {"read_data_point", "leaf_read_data_point"}
InitDataPoint ==
    \E fn \in DataPointFns, t \in TraitTypes :
        \E c \in Prefixes(PointBuf(F_1, PointValue(t))) : Start(fn, <<VInt(t)>>, c)

\* lists of Int data points: a count, then points whose times repeat
MaxPoints   == 2
PointChoice == { PointBuf(F_1, EncInt(3)), PointBuf(F_1, EncInt(7)),
                 PointBuf(F_0, EncInt(3)), PointBuf(F_m0, EncInt(7)),
                 PointBuf(F_nan, EncInt(3)) }
PointLists  == UNION { [1..n -> PointChoice] : n \in 0..MaxPoints }
DataPointsFns == {"read_data_points", "leaf_read_data_points"}
InitDataPoints ==
    \E fn \in DataPointsFns, ps \in PointLists :
        \/ Start(fn, <<VInt(0)>>, EncInt(Len(ps)) \o Concat(ps))
        \/ Start(fn, <<VInt(0)>>, EncInt(Len(ps) - 1) \o Concat(ps))
        \/ Len(ps) > 0 /\ Start(fn, <<VInt(0)>>, EncInt(Len(ps)) \o Concat(Tail(ps)))

\* components, each a TypeCode followed by the payload its reader takes
EditStateComp == EncHash(TC_EditState)
TransformComp ==
    EncHash(TC_Transform) \o EncInt(1) \o EncStr(T_a) \o EncStr(<<>>) \o TransformBuf
AnimationComp == EncHash(TC_Animation) \o EncInt(1) \o F_0 \o EncStr(T_b)
ApproachComp ==
    EncHash(TC_ApproachAnim) \o EncInt(1) \o F_0 \o EncStr(T_b) \o EncInt(1) \o EncInt(2)
DrawComp ==
    EncHash(TC_Draw) \o EncInt(1) \o EncBool(TRUE) \o EncStr(T_a) \o EncStr(T_b)
      \o EncInt(1) \o EncStr(T_a)
\* a TypeCode of no registry, then bytes that would be its payload
UnknownComp == EncHash(TC_None) \o EncInt(7)
\* a registered TypeCode with its bytes in the order of its hex text
SwappedComp == TC_EditState \o EncInt(7)
ComponentBufs ==
    {EditStateComp, TransformComp, AnimationComp, ApproachComp, DrawComp,
     UnknownComp, SwappedComp}
InitComponent ==
    \E b \in ComponentBufs : Start("read_component", <<>>, b)

\* the payloads of three kinds of object
SampPayloadWith(component) ==
    Concat(<< EncInt(1), EncInt(1), EncInt(1), component, EncStr(T_a),
              EncInt(0), EncStr(T_foo_mesh), EncBool(TRUE), EncInt(2),
              F_1, F_h, F_0, F_2, EncStr(T_b) >>)
SampPayload == SampPayloadWith(EditStateComp)
SpnPayload ==
    Concat(<< EncInt(1), EncInt(1), EncInt(2), EditStateComp, TransformComp,
              EncInt(2), EncStr(T_foo_mesh), EncStr(T_a) >>)
LeafPayload ==
    Concat(<< EncInt(1), EncInt(1), EncInt(1), EncInt(0), EncInt(0),
              EncInt(0), F_0, F_0, EncInt(0) >>)

\* one declared object: its TypeCode and what lies in the file for it
ObjKinds == {"samp", "spn", "leaf", "none", "drawer"}
KindCode(kind) ==
    CASE kind = "samp" -> TC_Samp
      [] kind = "spn" -> TC_Spn
      [] kind = "leaf" -> TC_Leaf
      [] kind = "none" -> TC_None
      [] kind = "drawer" -> TC_Drawer
      [] kind = "tex" -> TC_Tex
KindPayload(kind) ==
    CASE kind = "samp" -> SampPayload
      [] kind = "spn" -> SpnPayload
      [] kind = "leaf" -> LeafPayload
      [] kind = "none" -> EncInt(7)
      [] kind = "drawer" -> EncInt(7)
      [] kind = "tex" -> EncInt(1) \o EncInt(1) \o EncInt(0) \o EncStr(T_a)
                           \o EncBool(TRUE) \o EncInt(2) \o EncStr(T_foo_mesh)
\* objects are named "a", "b", "c", ... in declaration order
ObjName(i) == <<96 + i>>
Decl(kinds, i) == EncStr(ObjName(i)) \o EncHash(KindCode(kinds[i]))

\* an object library: four ints, the global libraries, the original path,
\* the external objects, the declarations, then the payloads
LibHeader(extras) ==
    Concat(<< EncInt(1), EncInt(2), EncInt(3), EncInt(4) >>)
      \o (IF extras THEN EncInt(1) \o EncInt(5) \o EncStr(T_a) ELSE EncInt(0))
      \o EncStr(T_b)
      \o (IF extras THEN EncInt(1) \o EncHash(TC_Samp) \o EncStr(T_a) \o EncInt(6)
          ELSE EncInt(0))
LibBody(kinds, extras) ==
    LibHeader(extras) \o EncInt(Len(kinds))
      \o Concat([i \in 1..Len(kinds) |-> Decl(kinds, i)])
      \o Concat([i \in 1..Len(kinds) |-> KindPayload(kinds[i])])
\* the layout in which each payload follows its own declaration
LibBodyInterleaved(kinds) ==
    LibHeader(FALSE) \o EncInt(Len(kinds))
      \o Concat([i \in 1..Len(kinds) |-> Decl(kinds, i) \o KindPayload(kinds[i])])
ObjlibFile(kinds, extras) == EncInt(8) \o EncHash(TC_Objlib) \o LibBody(kinds, extras)

MaxObjects == 2
ObjLists   == UNION { [1..n -> ObjKinds] : n \in 0..MaxObjects }
SampSpn    == <<"samp", "spn">>
SampSpnFile == ObjlibFile(SampSpn, FALSE)
FileKinds  == {0, 7, 9, -1}
InitFile ==
    \/ \E kinds \in ObjLists : Start("read_file", <<>>, ObjlibFile(kinds, FALSE))
    \/ Start("read_file", <<>>, ObjlibFile(<<"leaf">>, TRUE))
    \/ \E c \in Prefixes(SampSpnFile) : Start("read_file", <<>>, c)
    \/ Start("read_file", <<>>,
             EncInt(8) \o EncHash(TC_Objlib) \o LibBodyInterleaved(SampSpn))
    \/ \E k \in FileKinds :
           Start("read_file", <<>>, EncInt(k) \o EncHash(TC_Objlib) \o LibBody(SampSpn, FALSE))
    \/ Start("read_file", <<>>, EncInt(8) \o EncHash(TC_None) \o LibBody(SampSpn, FALSE))
    \/ Start("read_file", <<>>, EncInt(8) \o TC_Objlib \o LibBody(SampSpn, FALSE))
    \/ \E component \in ComponentBufs :
           Start("read_file", <<>>,
                 Concat(<< EncInt(8), EncHash(TC_Objlib), LibHeader(FALSE), EncInt(1),
                           Decl(<<"samp">>, 1), SampPayloadWith(component) >>))
    \/ \E kinds \in ObjLists : Start("read_level_objlib", <<>>, LibBody(kinds, FALSE))

\* single declarations: a registered TypeCode in file order, the same bytes
\* in the order of the hex text, and an unregistered one
DeclBufs ==
    { EncStr(T_a) \o code : code \in {EncHash(TC_Leaf), TC_Leaf, EncHash(TC_Samp),
                                      EncHash(TC_None), EncHash(TC_Drawer)} }
InitDecl ==
    \E b \in DeclBufs : Start("read_level_object_declaration", <<>>, b)

\* nested counts (components, boss patterns, vertices, faces, decorators,
\* steps, sub-paths, trait-path segments) run from 0 to MaxCount
MaxCount == 2
Counts   == 0..MaxCount

\* a component list: the count, then the components
Components(cs) == EncInt(Len(cs)) \o Concat(cs)
\* n components for an object that keeps none of them
SomeComponents(n) ==
    Components([i \in 1..n |-> IF i = 1 THEN EditStateComp ELSE AnimationComp])
\* a trait path: the count, then (TypeCode, index) per segment
EncTraitPath(segs) ==
    EncInt(Len(segs)) \o Concat([i \in 1..Len(segs) |-> EncHash(segs[i][1]) \o EncInt(segs[i][2])])
Copies(n, b) == Concat([i \in 1..n |-> b])

ColorBuf  == Concat(<<F_1, F_h, F_0, F_1>>)
VectorBuf == Concat(<<F_1, F_2, F_h>>)

\* the payloads of the five kinds of object whose reader keeps nothing
BossPatternBuf ==
    Concat(<< EncHash(TC_None), EncStr(T_a), EncBool(TRUE), EncStr(T_b), F_1, EncInt(1) >>)
GatePayload(n, k) ==
    Concat(<< EncInt(1), EncInt(1), SomeComponents(n), EncStr(T_a),
              EncTraitPath(<< <<TC_Leaf, -1>> >>), EncInt(k), Copies(k, BossPatternBuf),
              EncStr(T_a), EncStr(T_b), EncStr(<<>>), EncStr(T_a), EncStr(T_b),
              F_1, EncStr(T_a) >>)
TexPayload(n) ==
    Concat(<< EncInt(1), EncInt(1), SomeComponents(n), EncStr(T_a), EncBool(TRUE),
              EncInt(2), EncStr(T_foo_mesh) >>)
MatPayload(n) ==
    Concat(<< EncInt(1), EncInt(1), SomeComponents(n),
              EncStr(T_a), EncStr(T_b), EncStr(<<>>), EncStr(T_a), EncInt(1),
              EncStr(T_a), EncStr(T_b), EncBool(TRUE), EncBool(FALSE), EncStr(T_a),
              ColorBuf, ColorBuf, ColorBuf, ColorBuf, ColorBuf, F_1, F_h,
              EncStr(T_a), EncStr(T_b), TransformBuf, F_1, EncBool(TRUE),
              EncStr(T_a), EncBool(FALSE) >>)
\* a vertex index as the two bytes of a short, or in a slot of four bytes
ShortBuf(width) == IF width = 2 THEN <<1, 0>> ELSE <<1, 0, 0, 0>>
ShortWidths     == {2, 4}
MeshInline(n, V, F, width) ==
    Concat(<< EncInt(1), EncInt(1), SomeComponents(n), EncStr(T_a), EncStr(T_b),
              EncInt(V), Copies(V, VectorBuf \o VectorBuf \o VectorBuf),
              EncInt(F), Copies(F, ShortBuf(width) \o ShortBuf(width) \o ShortBuf(width)),
              EncBool(TRUE), EncBool(FALSE) >>)
MeshExternal(n) ==
    Concat(<< EncInt(1), EncInt(1), SomeComponents(n), EncStr(T_a), EncStr(<<>>),
              EncInt(2), EncStr(T_foo_mesh), EncInt(1), EncInt(2), EncInt(3),
              EncBool(TRUE), EncInt(4) >>)
PathPayload(n, d) ==
    Concat(<< EncInt(1), EncInt(1), SomeComponents(n), VectorBuf, VectorBuf, F_1,
              EncStr(T_a), EncBool(TRUE), EncStr(T_b), EncBool(FALSE), EncBool(TRUE),
              F_h, EncInt(d), Copies(d, EncStr(T_a)), EncBool(TRUE) >>)

StubReaders == {"read_gate", "read_tex", "read_mat", "read_mesh", "read_path"}
MeshFaceBufs ==
    { MeshInline(n, V, F, w) : n \in {1}, V \in Counts, F \in 1..MaxCount, w \in ShortWidths }
MeshBufs ==
    { MeshInline(n, V, 0, 2) : n \in Counts, V \in Counts }
      \cup MeshFaceBufs \cup { MeshExternal(n) : n \in Counts }
StubBufs(fn) ==
    CASE fn = "read_gate" -> { GatePayload(n, k) : n \in Counts, k \in Counts }
      [] fn = "read_tex" -> { TexPayload(n) : n \in Counts }
      [] fn = "read_mat" -> { MatPayload(n) : n \in Counts }
      [] fn = "read_mesh" -> MeshBufs
      [] fn = "read_path" -> { PathPayload(n, d) : n \in Counts, d \in Counts }
InitStub ==
    \/ \E fn \in StubReaders : \E b \in StubBufs(fn) : Start(fn, <<VStr(T_a)>>, b)
    \/ Start("read_file", <<>>, ObjlibFile(<<"tex", "leaf">>, FALSE))

\* steps: "plain" has an empty first string, a leaf name and no sub-path;
\* "subs" has MaxCount sub-paths; "skip" sets the skip-sequin flag, so no leaf
\* name lies in the file; "named" has a non-empty first string, so the block
\* from the beat count to the sub-paths does not lie in the file
StepKinds == {"plain", "subs", "skip", "named"}
StepTail  == Concat(<< EncStr(T_a), EncInt(1), TransformBuf, EncBool(TRUE), EncBool(FALSE) >>)
StepBuf(kind) ==
    CASE kind = "plain" ->
           Concat(<< EncStr(<<>>), EncInt(1), EncBool(FALSE), EncStr(T_a), EncStr(T_b),
                     EncInt(0), StepTail >>)
      [] kind = "subs" ->
           Concat(<< EncStr(<<>>), EncInt(2), EncBool(FALSE), EncStr(T_b), EncStr(T_b),
                     EncInt(MaxCount), Copies(MaxCount, EncStr(T_a) \o EncStr(T_b)),
                     StepTail >>)
      [] kind = "skip" ->
           Concat(<< EncStr(<<>>), EncInt(3), EncBool(TRUE), EncStr(T_b), EncInt(0),
                     StepTail >>)
      [] kind = "named" -> EncStr(T_a) \o StepTail
BeatsOf(kind) == CASE kind = "plain" -> 1 [] kind = "subs" -> 2 [] kind = "skip" -> 3
                   [] kind = "named" -> 0
\* each step follows a true bool; a false bool ends the list
StepsBuf(kinds) ==
    Concat([i \in 1..Len(kinds) |-> EncBool(TRUE) \o StepBuf(kinds[i])]) \o EncBool(FALSE)
StepLists == UNION { [1..n -> StepKinds] : n \in Counts }
InitSteps ==
    \/ \E kinds \in StepLists : Start("read_steps", <<>>, StepsBuf(kinds))
    \* any non-zero byte is a true bool; bytes after the false bool are not read
    \/ Start("read_steps", <<>>, <<2>> \o StepBuf("plain") \o EncBool(FALSE) \o <<1>>)
    \/ \E c \in Prefixes(StepsBuf(<<"subs">>)) : Start("read_steps", <<>>, c)

\* component lists of every registered kind
KnownComps == {EditStateComp, TransformComp, AnimationComp, ApproachComp, DrawComp}
ComponentLists == UNION { [1..n -> KnownComps] : n \in Counts }
InitComponents ==
    \E cs \in ComponentLists : Start("read_components", <<>>, Components(cs))

\* sequencer objects: a name, a trait path, a trait type, two lists of data
\* points laid out for that trait type, then the fixed fields
PointsBuf(trait_type, n) ==
    EncInt(n) \o Concat([i \in 1..n |->
                           PointBuf(IF i = 1 THEN F_1 ELSE F_2, PointValue(trait_type))])
SeqObjTail ==
    Concat(<< EncInt(1), EncInt(2), EncInt(3), EncInt(4), EncInt(5), EncStr(T_a),
              EncStr(T_b), EncBool(TRUE), EncBool(FALSE), EncInt(6), F_h, ColorBuf,
              EncBool(TRUE), EncBool(FALSE), EncBool(TRUE) >>)
SeqObjBuf(segs, trait_type, n1, n2) ==
    Concat(<< EncStr(T_a), EncTraitPath(segs), EncInt(trait_type),
              PointsBuf(trait_type, n1), PointsBuf(trait_type, n2), SeqObjTail >>)
LeafSeg == <<TC_Leaf, -1>>
\* trait types with a reader (0, 2, 3), without one (4, 19, -1), outside the
\* list (20, -21), and a negative index of a reader (-20)
SeqTraitTypes == {0, 2, 3, 4, 19, -1, 20, -21, -20}
\* trait-path segments: no index (-1), an index, and an index below -1
SegChoice == { <<TC_Leaf, -1>>, <<TC_Samp, 0>>, <<TC_Spn, 3>>, <<TC_Leaf, -2>> }
SegLists  == UNION { [1..n -> SegChoice] : n \in Counts }
InitSeqObj ==
    \/ \E t \in SeqTraitTypes, n1 \in Counts, n2 \in Counts :
           Start("read_sequencer_object", <<>>, SeqObjBuf(<<LeafSeg>>, t, n1, n2))
    \/ \E segs \in SegLists :
           \/ Start("read_trait_path", <<>>, EncTraitPath(segs))
           \/ Start("read_sequencer_object", <<>>, SeqObjBuf(segs, 0, 1, 0))

\* Leaf, Master and Lvl payloads
LeafPayloadWith(seq_objs, beats) ==
    Concat(<< EncInt(1), EncInt(1), EncInt(1), SomeComponents(2),
              EncInt(Len(seq_objs)), Concat(seq_objs),
              EncInt(beats), F_0, F_h, Copies(beats, VectorBuf), EncInt(0) >>)
LvlGroupingBuf ==
    Concat(<< EncStr(T_a), EncStr(T_b), EncBool(TRUE), EncStr(T_a), EncStr(<<>>),
              EncBool(FALSE), EncBool(TRUE), EncInt(1), EncBool(FALSE), EncBool(TRUE) >>)
MasterPayload(g) ==
    Concat(<< EncInt(1), EncInt(1), EncInt(1), SomeComponents(1), EncInt(0), F_1,
              EncStr(T_a), EncStr(T_b), EncInt(g), Copies(g, LvlGroupingBuf),
              EncBool(TRUE), EncBool(FALSE), EncInt(1), EncInt(2), EncInt(3), EncInt(4),
              VectorBuf, EncStr(T_a), EncStr(T_b) >>)
LoopBuf == Concat(<< EncStr(T_a), EncInt(4), EncInt(0) >>)
LvlPayload(cs, kinds) ==
    Concat(<< EncInt(1), EncInt(1), EncInt(1), Components(cs), EncInt(0), F_1,
              EncStr(T_a), EncStr(T_b), StepsBuf(kinds), EncInt(1), LoopBuf,
              EncBool(TRUE), F_h, EncStr(T_a), EncTraitPath(<<LeafSeg>>), EncStr(T_b),
              EncBool(TRUE), EncStr(T_a), VectorBuf >>)
SpnPayloadWith(cs) ==
    Concat(<< EncInt(1), EncInt(1), Components(cs), EncInt(2), EncStr(T_foo_mesh),
              EncStr(T_a) >>)
\* a Samp whose file path has root index r
SampPayloadAt(r) ==
    Concat(<< EncInt(1), EncInt(1), SomeComponents(1), EncStr(T_a),
              EncInt(r), EncStr(T_foo_mesh), EncBool(TRUE), EncInt(2),
              F_1, F_h, F_0, F_2, EncStr(T_b) >>)

\* main on one object of each kind whose reader builds a record
PlainLeaf   == LeafPayloadWith(<< SeqObjBuf(<<LeafSeg>>, 0, 2, 1) >>, 1)
FloatLeaf   == LeafPayloadWith(<< SeqObjBuf(<<LeafSeg>>, 2, 1, 0) >>, 0)
IndexedLeaf == LeafPayloadWith(<< SeqObjBuf(<< <<TC_Spn, 3>> >>, 0, 1, 0) >>, 0)
ColorLeaf   == LeafPayloadWith(<< SeqObjBuf(<<LeafSeg>>, 3, 1, 0) >>, 0)
PlainLvl    == LvlPayload(<<ApproachComp, EditStateComp>>, <<"plain">>)
MainCases ==
    { <<"read_leaf", PlainLeaf>>, <<"read_leaf", FloatLeaf>>, <<"read_leaf", IndexedLeaf>>,
      <<"read_leaf", ColorLeaf>>, <<"read_leaf", LeafPayload>>,
      <<"read_master", MasterPayload(0)>>, <<"read_master", MasterPayload(MaxCount)>>,
      <<"read_lvl", PlainLvl>>,
      <<"read_samp", SampPayloadAt(0)>>, <<"read_samp", SampPayloadAt(2)>>,
      <<"read_spn", SpnPayload>> }
InitMain ==
    \E c \in MainCases :
        \/ StartMain(c[1], <<VStr(T_a)>>, c[2])
        \/ Start(c[1], <<VStr(T_a)>>, c[2])

\* Lvl and Spn objects on component lists of 0, 1 and 3 components and on
\* every pair of components
OddLists  == { <<>>, <<TransformComp>>, <<ApproachComp>>,
               <<EditStateComp, TransformComp, TransformComp>>,
               <<ApproachComp, EditStateComp, EditStateComp>> }
PairLists == [1..2 -> KnownComps]
InitPairs ==
    \E cs \in OddLists \cup PairLists :
        \/ Start("read_spn", <<VStr(T_a)>>, SpnPayloadWith(cs))
        \/ Start("read_lvl", <<VStr(T_a)>>, LvlPayload(cs, <<"plain">>))

\* files that end inside a loop: the count of the loop is the largest int32
\* (or the steps never meet a false bool), k items follow, then the file ends
MaxInt32 == 2147483647
H == EncInt(MaxInt32)
Ints(n) == Copies(n, EncInt(1))
\* a library of one object 'a' of the given kind, cut inside its payload
LibWith(code, payload) ==
    Concat(<< EncInt(8), EncHash(TC_Objlib), LibHeader(FALSE), EncInt(1),
              EncStr(T_a), EncHash(code), payload >>)
LvlHead == Concat(<< Ints(3), Components(<<ApproachComp, EditStateComp>>), EncInt(0), F_1,
                     EncStr(T_a), EncStr(T_b) >>)
SeqObjHead == Concat(<< Ints(3), EncInt(0), EncInt(1), EncStr(T_a) >>)
MeshHead == Concat(<< Ints(2), SomeComponents(1), EncStr(T_a), EncStr(T_b) >>)
CutFiles(k) ==
    { \* the three loops of the library header
      Concat(<< EncInt(8), EncHash(TC_Objlib), Ints(4), H, Copies(k, EncInt(5) \o EncStr(T_a)) >>),
      Concat(<< EncInt(8), EncHash(TC_Objlib), Ints(4), EncInt(0), EncStr(T_b), H,
                Copies(k, EncHash(TC_Samp) \o EncStr(T_a) \o EncInt(6)) >>),
      Concat(<< EncInt(8), EncHash(TC_Objlib), LibHeader(FALSE), H,
                Copies(k, EncStr(T_a) \o EncHash(TC_Samp)) >>),
      \* components, and the children of a Draw component
      LibWith(TC_Leaf, Ints(3) \o H \o Copies(k, AnimationComp)),
      LibWith(TC_Samp, Concat(<< Ints(2), EncInt(1), EncHash(TC_Draw), EncInt(1), EncBool(TRUE),
                                 EncStr(T_a), EncStr(T_b), H, Copies(k, EncStr(T_a)) >>)),
      \* sequencer objects, trait path, data points, ui elements, beats
      LibWith(TC_Leaf, Concat(<< Ints(3), EncInt(0), H,
                                 Copies(k, SeqObjBuf(<<LeafSeg>>, 0, 1, 0)) >>)),
      LibWith(TC_Leaf, Concat(<< SeqObjHead, H, Copies(k, EncHash(TC_Leaf) \o EncInt(-1)) >>)),
      LibWith(TC_Leaf, Concat(<< SeqObjHead, EncTraitPath(<<LeafSeg>>), EncInt(0), H,
                                 Copies(k, PointBuf(F_1, EncInt(3))) >>)),
      LibWith(TC_Leaf, Concat(<< SeqObjHead, EncTraitPath(<<LeafSeg>>), EncInt(0), EncInt(0), H,
                                 Copies(k, PointBuf(F_1, EncInt(3))) >>)),
      LibWith(TC_Leaf, Concat(<< Ints(3), EncInt(0), EncInt(0), H, F_0, F_0,
                                 Copies(k, VectorBuf) >>)),
      \* groupings of a Master
      LibWith(TC_Master, Concat(<< Ints(3), SomeComponents(1), EncInt(0), F_1, EncStr(T_a),
                                   EncStr(T_b), H, Copies(k, LvlGroupingBuf) >>)),
      \* steps with no false bool after them, sub-paths and loops of an Lvl
      LibWith(TC_Lvl, LvlHead \o Copies(k, EncBool(TRUE) \o StepBuf("plain"))),
      LibWith(TC_Lvl, Concat(<< LvlHead, EncBool(TRUE), EncStr(<<>>), EncInt(1), EncBool(FALSE),
                                EncStr(T_a), EncStr(T_b), H,
                                Copies(k, EncStr(T_a) \o EncStr(T_b)) >>)),
      LibWith(TC_Lvl, Concat(<< LvlHead, StepsBuf(<<>>), H, Copies(k, LoopBuf) >>)),
      \* boss patterns, vertices, faces, decorators
      LibWith(TC_Gate, Concat(<< Ints(2), SomeComponents(1), EncStr(T_a),
                                 EncTraitPath(<<LeafSeg>>), H, Copies(k, BossPatternBuf) >>)),
      LibWith(TC_Mesh, Concat(<< MeshHead, H,
                                 Copies(k, VectorBuf \o VectorBuf \o VectorBuf) >>)),
      LibWith(TC_Mesh, Concat(<< MeshHead, EncInt(0), H, Copies(k, ShortBuf(2)) >>)),
      LibWith(TC_Path, Concat(<< Ints(2), SomeComponents(1), VectorBuf, VectorBuf, F_1,
                                 EncStr(T_a), EncBool(TRUE), EncStr(T_b), EncBool(FALSE),
                                 EncBool(TRUE), F_h, H, Copies(k, EncStr(T_a)) >>)) }
InitCut ==
    \E k \in Counts : \E b \in CutFiles(k) : Start("read_file", <<>>, b)

\* a library whose Leaf has data points of a trait type without a reader
UnreadableLeafFile ==
    LibWith(TC_Leaf, LeafPayloadWith(<< SeqObjBuf(<<LeafSeg>>, 4, 1, 0) >>, 0))
InitUnreadable == Start("read_file", <<>>, UnreadableLeafFile)

\* Leaf payloads whose components are Animation and EditState components:
\* every prefix of one with a Color data point and a beat, every short list
\* of components, every trait type with and without points, and several
\* sequencer objects and beats
LeafOf(cs, seq_objs, beats) ==
    Concat(<< EncInt(1), EncInt(1), EncInt(1), Components(cs),
              EncInt(Len(seq_objs)), Concat(seq_objs),
              EncInt(beats), F_0, F_h, Copies(beats, VectorBuf), EncInt(0) >>)
SectionComps == {AnimationComp, EditStateComp}
SectionLists == UNION { [1..n -> SectionComps] : n \in Counts }
PointCounts  == {0, 1}
RichLeaf ==
    LeafOf(<<AnimationComp, EditStateComp>>, << SeqObjBuf(<< <<TC_Spn, 3>> >>, 3, 1, 1) >>, 1)
LeafBufs ==
    Prefixes(RichLeaf)
      \cup { LeafOf(cs, <<>>, 0) : cs \in SectionLists }
      \cup { LeafOf(<<EditStateComp>>, << SeqObjBuf(segs, t, n1, n2) >>, 0) :
                 segs \in {<<>>, <<LeafSeg>>}, t \in SeqTraitTypes,
                 n1 \in PointCounts, n2 \in PointCounts }
      \cup { LeafOf(<<>>, [i \in 1..n |-> SeqObjBuf(<<LeafSeg>>, 0, 1, 0)], beats) :
                 n \in Counts, beats \in Counts }
InitPair == \E b \in LeafBufs : Start("read_leaf", <<VStr(T_a)>>, b)

Init ==
    \/ InitRaw
    \/ InitPrim
    \/ InitDataPoint
    \/ InitDataPoints
    \/ InitComponent
    \/ InitFile
    \/ InitDecl
    \/ InitStub
    \/ InitSteps
    \/ InitComponents
    \/ InitSeqObj
    \/ InitMain
    \/ InitPairs
    \/ InitCut
    \/ InitUnreadable

Spec == Init /\ [][Next]_vars

\* the interpreter runs a statement whenever there is one to run: a decode
\* that has neither returned nor raised does not stop by itself
\* runs of read_file: whole libraries, libraries cut inside a loop, and one
\* whose decoding raises
InitDecode ==
    \/ \E kinds \in ObjLists : Start("read_file", <<>>, ObjlibFile(kinds, FALSE))
    \/ InitCut
    \/ InitUnreadable
FairSpec == InitDecode /\ [][Next]_vars /\ WF_vars(Next)

\* The two Leaf readers on the same bytes: once file_parser.read_leaf has
\* returned or raised, leaf_parser.read_leaf decodes the buffer from its
\* start, and entry keeps how the first decode ended
Again ==
    /\ entry.fn = "read_leaf"
    /\ status # "running"
    /\ entry' = [fn |-> "leaf_read_leaf", args |-> entry.args,
                 first |-> [status |-> status, err |-> err, pos |-> pos, ret |-> ret]]
    /\ pos' = 0
    /\ stack' = << [fn |-> "caller", pc |-> 1,
                    env |-> SetEnv(SetEnv(EmptyEnv, "_entry", VFn("leaf_read_leaf")),
                                   "_args", VTuple(entry.args)),
                    dst |-> "", li |-> 0] >>
    /\ status' = "running"
    /\ err' = ""
    /\ ret' = VNone
    /\ log' = <<>>
    /\ UNCHANGED buf

PairNext == Next \/ Again
PairSpec == (InitPair \/ InitDecode) /\ [][PairNext]_vars

(***************************************************************************)
(* What the history of a run says about the object library                 *)
(***************************************************************************)
CallsOf(fn)   == SelectSeq(log, LAMBDA r : r.fn = fn)
Finished(r)   == r.stop # -1
LibHelpers    == {"read_global_libraries", "read_level_external_objects",
                  "read_level_object_declarations"}
\* the calls of object readers made by read_level_objlib, in call order
ObjectCalls   == SelectSeq(log, LAMBDA r : r.by = "read_level_objlib" /\ r.fn \notin LibHelpers)
\* the declarations read, in file order
DeclCalls     == CallsOf("read_level_object_declaration")
DeclListCalls == CallsOf("read_level_object_declarations")
LibCalls      == CallsOf("read_level_objlib")

RECURSIVE Consumed(_)
\* the bytes taken by a sequence of finished calls
Consumed(cs) ==
    IF Len(cs) = 0 THEN 0 ELSE (cs[1].stop - cs[1].start) + Consumed(Tail(cs))

Triple(x, y, z) == VTuple(<<VFloat(x), VFloat(y), VFloat(z)>>)
\* the records read_samp and read_spn build from SampPayload and SpnPayload
SampRecord(name) ==
    VDict(<< <<VStr("items"), VList(<< VDict(<<
        <<VStr("obj_type"), VStr("Sample")>>,
        <<VStr("obj_name"), VStr(name)>>,
        <<VStr("mode"), VStr(T_a)>>,
        <<VStr("path"), VStr(T_foo_mesh)>>,
        <<VStr("volume"), VFloat(F_1)>>,
        <<VStr("pitch"), VFloat(F_h)>>,
        <<VStr("pan"), VFloat(F_0)>>,
        <<VStr("offset"), VFloat(F_2)>>,
        <<VStr("channel_group"), VStr(T_b)>> >>) >>)>> >>)
SpnRecord(name) ==
    VDict(<< <<VStr("items"), VList(<< VDict(<<
        <<VStr("obj_type"), VStr("EntitySpawner")>>,
        <<VStr("obj_name"), VStr(name)>>,
        <<VStr("xfm_name"), VStr(T_a)>>,
        <<VStr("constrainnt"), VStr(<<>>)>>,
        <<VStr("pos"), Triple(F_1, F_2, F_0)>>,
        <<VStr("rot_x"), Triple(F_1, F_0, F_0)>>,
        <<VStr("rot_y"), Triple(F_0, F_1, F_0)>>,
        <<VStr("rot_z"), Triple(F_0, F_0, F_1)>>,
        <<VStr("scale"), Triple(F_h, F_h, F_h)>>,
        <<VStr("objlib_path"), VTuple(<<VInt(2), VStr(T_foo_mesh)>>)>>,
        <<VStr("bucket"), VStr(T_a)>> >>) >>)>> >>)

Remaining(p) == Len(buf) - p
\* the length-prefixed string at p needs bytes the file does not have
StringRunsPast(p) ==
    \/ Remaining(p) < 4
    \/ LET size == le_int32(SubSeq(buf, p + 1, p + 4))
       IN  size < 0 \/ size > Remaining(p) - 4
RunsPast(fn) ==
    CASE fn \in {"read_int", "read_float", "read_hash"} -> Len(buf) < 4
      [] fn = "read_bool" -> Len(buf) < 1
      [] fn = "read_string" -> StringRunsPast(0)
      [] fn = "read_vector" -> Len(buf) < 3 * 4
      [] fn = "read_color" -> Len(buf) < 4 * 4
      [] fn = "read_transform" -> Len(buf) < 5 * 3 * 4
      [] fn = "read_file_path" -> Len(buf) < 4 \/ StringRunsPast(4)
PrimitiveReads ==
    {"read_int", "read_float", "read_bool", "read_string", "read_hash",
     "read_vector", "read_color", "read_transform", "read_file_path"}
C3_ReadPastEndFails ==
    (entry.fn \in PrimitiveReads /\ status # "running" /\ RunsPast(entry.fn)) =>
        (status = "failed" /\ err = "struct.error")

(***************************************************************************)
(* C4: a key that a dispatch registry does not hold ends the decode at     *)
(* the lookup, in each of the four registries (components, top-level       *)
(* objects, containers, file kinds): the lookup raises KeyError, no reader *)
(* is called for the unknown key, the cursor stays where the key ended,    *)
(* and nothing runs after the failure.                                     *)
(***************************************************************************)
Registries == {"component_readers", "level_object_readers", "objlib_readers",
               "file_readers"}
\* the statement about to run is reader = registry[key]
AtDispatch ==
    /\ At("let")
    /\ Stmt.e.k = "index"
    /\ Stmt.e.e.k = "glob"
    /\ Stmt.e.e.n \in Registries
DispatchMiss ==
    /\ AtDispatch
    /\ LET registry == Global(Stmt.e.e.n).v
           key == Top.env[Stmt.e.i.n]
       IN  \A j \in 1..Len(registry) : ~ValEq(registry[j][1], key)
SupportedTraitTypes == {0, 1, 2, 3, 8}
C5_UnsupportedTraitTypeFails ==
    (/\ entry.fn \in DataPointFns
     /\ entry.args[1].v \notin SupportedTraitTypes
     /\ status # "running") =>
        (status = "failed" /\ err = "TypeError")

(***************************************************************************)
(* C6: read_data_points reads the count and then that many data points     *)
(* (none when the count is not positive), one after the other; the dict it *)
(* returns has one entry for each time that occurs, and the entry holds    *)
(* the value of the last point in file order with that time.  Times are    *)
(* compared as Python compares floats: 0.0 and -0.0 are one time, and a    *)
(* NaN time is equal to no other.  Two Int points at time 1.0 with values  *)
(* 3 and 7 give {1.0: 7}.                                                  *)
(***************************************************************************)
PointCalls == SelectSeq(log, LAMBDA r : r.fn \in DataPointFns)
TimeOf(i)  == PointCalls[i].val.v[1]
ValueOf(i) == PointCalls[i].val.v[2]
\* the last point in file order with the time of point i
LastWith(i) ==
    CHOOSE k \in i..Len(PointCalls) :
        /\ k = i \/ ValEq(TimeOf(i), TimeOf(k))
        /\ \A m \in (k + 1)..Len(PointCalls) : ~ValEq(TimeOf(i), TimeOf(m))
FirstOfItsTime(i) == \A k \in 1..(i - 1) : ~ValEq(TimeOf(k), TimeOf(i))
TwoPointsAtOne ==
    EncInt(2) \o PointBuf(F_1, EncInt(3)) \o PointBuf(F_1, EncInt(7))
C6_LastWriteWins ==
    /\ (entry.fn \in DataPointsFns /\ status = "done") =>
           LET count == le_int32(SubSeq(buf, 1, 4))
               n == Len(PointCalls)
           IN  /\ n = IF count > 0 THEN count ELSE 0
               /\ \A i \in 1..n : Finished(PointCalls[i])
               /\ \A i \in 1..n :
                      PointCalls[i].start = IF i = 1 THEN 4 ELSE PointCalls[i - 1].stop
               /\ pos = IF n = 0 THEN 4 ELSE PointCalls[n].stop
               /\ ret.t = "dict"
               /\ Len(ret.v) = Cardinality({i \in 1..n : FirstOfItsTime(i)})
               /\ \A i \in 1..n : \E j \in 1..Len(ret.v) :
                      /\ ret.v[j][1] = TimeOf(i) \/ ValEq(ret.v[j][1], TimeOf(i))
                      /\ ret.v[j][2] = ValueOf(LastWith(i))
               /\ \A j \in 1..Len(ret.v) : \E i \in 1..n : ret.v[j][1] = TimeOf(i)
    /\ (entry.fn \in DataPointsFns /\ buf = TwoPointsAtOne) =>
           /\ status # "failed"
           /\ status = "done" => ret = VDict(<< <<VFloat(F_1), VInt(7)>> >>)

C6_Witness ==
    /\ entry.fn = "read_data_points"
    /\ buf = TwoPointsAtOne
    /\ status = "done"
    /\ Len(PointCalls) = 2
    /\ ValueOf(1) = VInt(3)
    /\ ValueOf(2) = VInt(7)

(***************************************************************************)
(* C7, as claimed: a declaration whose TypeCode bytes are ce 7e 85 f6 in   *)
(* file order is dispatched to the Leaf reader.                            *)
(***************************************************************************)
DeclOfHexOrder  == EncStr(T_a) \o TC_Leaf            \* ... ce 7e 85 f6
DeclOfFileOrder == EncStr(T_a) \o EncHash(TC_Leaf)   \* ... f6 85 7e ce
C8_BareStringIffRootZero ==
    (entry.fn = "read_file_path" /\ status = "done") =>
        LET root_index == le_int32(SubSeq(buf, 1, 4))
            text == VStr(SubSeq(buf, 9, pos))
        IN  /\ pos >= 8
            /\ root_index = 0 => ret = text
            /\ root_index # 0 => ret = VTuple(<<VInt(root_index), text>>)

C8_Witness ==
    /\ entry.fn = "read_file_path"
    /\ status = "done"
    /\ buf = EncInt(2) \o EncStr(T_foo_mesh)
    /\ ret = VTuple(<<VInt(2), VStr(T_foo_mesh)>>)

(***************************************************************************)
(* C9: a decode of an object library through read_file that succeeds hands *)
(* the caller a record tree with the decoded objects, never None.          *)
(***************************************************************************)
C9_DecodeHandsBackObjects ==
    (entry.fn = "read_file" /\ status = "done") =>
        (ret.t \in {"dict", "list"} /\ Len(ret.v) >= Len(ObjectCalls))

(***************************************************************************)
(* C10: every step leaves the cursor where it was or moves it forward, and *)
(* never past the end of the file.                                         *)
(***************************************************************************)
C10_CursorMovesForward ==
    [][ /\ pos' >= pos
        /\ pos' <= Len(buf')
        /\ buf' = buf ]_vars

\* a read that asked for more bytes than the file had left
C10_Witness ==
    /\ entry.fn = "read_file"
    /\ status = "failed"
    /\ err = "struct.error"
    /\ pos = Len(buf)
    /\ Len(stack) > 3
    /\ \E i \in 1..Len(log) : Finished(log[i]) /\ log[i].stop > log[i].start

(***************************************************************************)
(* C11: every record an object reader (Leaf, Master, Lvl, Gate, Samp, Spn, *)
(* Tex, Mat, Mesh, Path) returns carries obj_name equal to the name of the *)
(* declaration it was called with, the five kinds with an empty payload    *)
(* included.  A record that holds the name in an entry of its 'items' list *)
(* (Samp, Spn) counts as carrying it.                                      *)
(***************************************************************************)
ObjectReaders == {"read_leaf", "read_master", "read_lvl", "read_samp", "read_spn"}
                   \cup StubReaders
HasField(d, k, x) ==
    /\ d.t = "dict"
    /\ \E i \in 1..Len(d.v) : d.v[i][1].t = "str" /\ d.v[i][1].v = k /\ d.v[i][2] = x
HasItemWith(d, k, x) ==
    /\ d.t = "dict"
    /\ \E i \in 1..Len(d.v) :
         /\ d.v[i][1].t = "str" /\ d.v[i][1].v = "items"
         /\ d.v[i][2].t = "list"
         /\ \E j \in 1..Len(d.v[i][2].v) : HasField(d.v[i][2].v[j], k, x)
CarriesName(rec, name) ==
    HasField(rec, "obj_name", name) \/ HasItemWith(rec, "obj_name", name)
ReturnedBy(fns) == SelectSeq(log, LAMBDA r : r.fn \in fns /\ Finished(r))
C11_ObjectRecordsCarryName ==
    \A i \in 1..Len(ReturnedBy(ObjectReaders)) :
        CarriesName(ReturnedBy(ObjectReaders)[i].val, ReturnedBy(ObjectReaders)[i].args[1])

\* the readers that do put the name into their record
NamingReaders == ObjectReaders \ StubReaders
C11_NamedKindsCarryName ==
    \A i \in 1..Len(ReturnedBy(NamingReaders)) :
        CarriesName(ReturnedBy(NamingReaders)[i].val, ReturnedBy(NamingReaders)[i].args[1])
C11_StubsReturnEmpty ==
    \A i \in 1..Len(ReturnedBy(StubReaders)) : ReturnedBy(StubReaders)[i].val = VDict(<<>>)

(***************************************************************************)
(* C12: each reader of a kind with an empty payload (Gate, Tex, Mat, Mesh, *)
(* Path), run on the bytes of its layout, succeeds with an empty record    *)
(* and leaves the cursor at the end of the layout, for every count of      *)
(* components, boss patterns, vertices, faces and decorators; a Mesh with  *)
(* inline data and one or more faces is among them.                        *)
(***************************************************************************)
OnStubLayout == entry.fn \in StubReaders /\ buf \in StubBufs(entry.fn)
C12_StubReadersConsumeLayout ==
    (OnStubLayout /\ status # "running") =>
        /\ status = "done"
        /\ ret = VDict(<<>>)
        /\ pos = Len(buf)

\* the same, for every layout but a Mesh with faces
C12_FacelessLayoutsDecode ==
    (OnStubLayout /\ buf \notin MeshFaceBufs /\ status # "running") =>
        /\ status = "done"
        /\ ret = VDict(<<>>)
        /\ pos = Len(buf)
\* a Mesh with faces fails at its first vertex index
C12_MeshWithFacesFails ==
    (entry.fn = "read_mesh" /\ buf \in MeshFaceBufs /\ status # "running") =>
        /\ status = "failed"
        /\ err = "struct.error"
        /\ Top.fn = "read_mesh" /\ Top.pc = 15

(***************************************************************************)
(* C13: read_steps reads a bool before each step: true, it decodes a Step  *)
(* and goes on; false, it stops.  It returns the Steps in the order they   *)
(* lie in the file, and every well-formed Step decodes, one whose first    *)
(* string is not empty and one whose skip-sequin flag is set included.     *)
(***************************************************************************)
StepCalls == CallsOf("read_step")
OnSteps(kinds) == entry.fn = "read_steps" /\ buf = StepsBuf(kinds)
StepsInWireOrder(kinds) ==
    /\ status = "done"
    /\ pos = Len(buf)
    /\ ret.t = "list"
    /\ Len(ret.v) = Len(kinds)
    /\ Len(StepCalls) = Len(kinds)
    /\ \A i \in 1..Len(kinds) :
         /\ HasField(ret.v[i], "beat_cnt", VInt(BeatsOf(kinds[i])))
         /\ ret.v[i] = StepCalls[i].val
         \* the bool before the step, then the step
         /\ StepCalls[i].start = (IF i = 1 THEN 0 ELSE StepCalls[i - 1].stop) + 1
         /\ StepCalls[i].stop - StepCalls[i].start = Len(StepBuf(kinds[i]))
C13_EveryStepDecodes ==
    \A kinds \in StepLists :
        (OnSteps(kinds) /\ status # "running") => StepsInWireOrder(kinds)

\* the steps that do decode: empty first string and skip-sequin flag false
DecodableSteps == {"plain", "subs"}
C13_DecodableStepsInWireOrder ==
    \A kinds \in StepLists :
        (OnSteps(kinds) /\ status # "running"
           /\ \A i \in 1..Len(kinds) : kinds[i] \in DecodableSteps)
          => StepsInWireOrder(kinds)
\* the first step of another kind ends the decode in its return statement
C13_OtherStepsFail ==
    \A kinds \in StepLists :
        (OnSteps(kinds) /\ status # "running"
           /\ \E i \in 1..Len(kinds) : kinds[i] \notin DecodableSteps)
          => /\ status = "failed"
             /\ err = "UnboundLocalError"
             /\ Top.fn = "read_step" /\ Top.pc = 20
             /\ \A i \in 1..(Len(StepCalls) - 1) : kinds[i] \in DecodableSteps
             /\ kinds[Len(StepCalls)] \notin DecodableSteps

(***************************************************************************)
(* C14: each component reader (Animation, EditState, ApproachAnimation,    *)
(* Transform, Draw) returns a record when it has consumed its fields, and  *)
(* read_components returns one record per component, in file order: empty  *)
(* for Animation and EditState, approach_beats for ApproachAnimation,      *)
(* name, constraint and transform for Transform, and for Draw a record     *)
(* that holds none of the child names.                                     *)
(***************************************************************************)
TransformRecord ==
    VDict(<< <<VStr("xfm_name"), VStr(T_a)>>,
             <<VStr("constrainnt"), VStr(<<>>)>>,
             <<VStr("pos"), Triple(F_1, F_2, F_0)>>,
             <<VStr("rot_x"), Triple(F_1, F_0, F_0)>>,
             <<VStr("rot_y"), Triple(F_0, F_1, F_0)>>,
             <<VStr("rot_z"), Triple(F_0, F_0, F_1)>>,
             <<VStr("scale"), Triple(F_h, F_h, F_h)>> >>)
\* what the claim says each fixture component decodes to
ComponentRecord(c) ==
    CASE c = ApproachComp -> VDict(<< <<VStr("approach_beats"), VInt(2)>> >>)
      [] c = TransformComp -> TransformRecord
      [] OTHER -> VDict(<<>>)
\* what the reader returns: nothing for Draw
ComponentValue(c) == IF c = DrawComp THEN VNone ELSE ComponentRecord(c)
ComponentCalls == CallsOf("read_component")
OnComponents(cs) == entry.fn = "read_components" /\ buf = Components(cs)
C14_ComponentsAreRecords ==
    \A cs \in ComponentLists :
        (OnComponents(cs) /\ status # "running") =>
            /\ status = "done"
            /\ pos = Len(buf)
            /\ ret.t = "list"
            /\ Len(ret.v) = Len(cs)
            /\ \A i \in 1..Len(cs) : ret.v[i].t = "dict" /\ ret.v[i] = ComponentRecord(cs[i])

C14_ComponentsAsReturned ==
    \A cs \in ComponentLists :
        (OnComponents(cs) /\ status # "running") =>
            /\ status = "done"
            /\ pos = Len(buf)
            /\ ret.t = "list"
            /\ Len(ret.v) = Len(cs)
            /\ Len(ComponentCalls) = Len(cs)
            /\ \A i \in 1..Len(cs) :
                 /\ ret.v[i] = ComponentValue(cs[i])
                 /\ ComponentCalls[i].val = ret.v[i]
                 /\ ComponentCalls[i].stop - ComponentCalls[i].start = Len(cs[i])

(***************************************************************************)
(* C15: a SequencerObject whose trait type has no payload decoder (any     *)
(* type outside Int, Bool, Float, Color, Action) never decodes to a        *)
(* record: the decode fails for every pair of data-point counts, the pair  *)
(* (0, 0) included.                                                        *)
(***************************************************************************)
OnSeqObj(t, n1, n2) ==
    entry.fn = "read_sequencer_object" /\ buf = SeqObjBuf(<<LeafSeg>>, t, n1, n2)
C15_UndecodableTraitTypeFails ==
    \A t \in SeqTraitTypes \ SupportedTraitTypes, n1 \in Counts, n2 \in Counts :
        (OnSeqObj(t, n1, n2) /\ status # "running") => status = "failed"

\* the trait types the list of readers holds None for
NoneTraitTypes == {4, 19, -1}
\* with a point in either list, the first point read fails before any byte
C15_FailsAtFirstPoint ==
    \A t \in NoneTraitTypes, n1 \in Counts, n2 \in Counts :
        (OnSeqObj(t, n1, n2) /\ status # "running" /\ (n1 > 0 \/ n2 > 0)) =>
            /\ status = "failed"
            /\ err = "TypeError"
            /\ Top.fn = "read_data_point"
            /\ Len(CallsOf("read_data_point")) = 1
            /\ pos = CallsOf("read_data_point")[1].start
\* with no point at all, the object decodes and names the trait type
C15_DecodesWithoutPoints ==
    \A t \in NoneTraitTypes :
        (OnSeqObj(t, 0, 0) /\ status # "running") =>
            /\ status = "done"
            /\ pos = Len(buf)
            /\ HasField(ret, "trait_type", trait_type_names.v[(t % NumTraitTypes) + 1])
            /\ HasField(ret, "data_points", VDict(<<>>))

(***************************************************************************)
(* C16: read_trait_path returns one segment per entry of the file, in      *)
(* order: the TypeCode alone when the index in the file is -1, the pair    *)
(* (TypeCode, index) otherwise, so every index in a decoded trait path is  *)
(* non-negative; read_sequencer_object keeps the first segment of the path *)
(* as param_path.                                                          *)
(***************************************************************************)
SegValue(seg) ==
    IF seg[2] = -1 THEN VStr(HexOf(seg[1]))
    ELSE VTuple(<<VStr(HexOf(seg[1])), VInt(seg[2])>>)
OnTraitPath(segs) == entry.fn = "read_trait_path" /\ buf = EncTraitPath(segs)
OnPathOfSeqObj(segs) ==
    entry.fn = "read_sequencer_object" /\ buf = SeqObjBuf(segs, 0, 1, 0)
SegmentsInWireOrder(segs) ==
    /\ status = "done"
    /\ pos = Len(buf)
    /\ ret.t = "list"
    /\ Len(ret.v) = Len(segs)
    /\ \A i \in 1..Len(segs) : ret.v[i] = SegValue(segs[i])
IndexesNonNegative(path) ==
    \A i \in 1..Len(path.v) : path.v[i].t = "tuple" => path.v[i].v[2].v >= 0
C16_TraitPathSegments ==
    \A segs \in SegLists :
        /\ (OnTraitPath(segs) /\ status # "running") =>
               SegmentsInWireOrder(segs) /\ IndexesNonNegative(ret)
        /\ (OnPathOfSeqObj(segs) /\ status # "running" /\ Len(segs) > 0) =>
               status = "done" /\ HasField(ret, "param_path", SegValue(segs[1]))

\* the same without the bound on the index
C16_SegmentsAsEncoded ==
    \A segs \in SegLists :
        /\ (OnTraitPath(segs) /\ status # "running") => SegmentsInWireOrder(segs)
        /\ (OnPathOfSeqObj(segs) /\ status # "running" /\ Len(segs) > 0) =>
               status = "done" /\ HasField(ret, "param_path", SegValue(segs[1]))
        /\ (OnPathOfSeqObj(segs) /\ status # "running" /\ Len(segs) = 0) =>
               status = "failed" /\ err = "IndexError" /\ pos = Len(buf)

(***************************************************************************)
(* C17: for every record a successful decode of a Leaf, Master, Lvl, Samp  *)
(* or Spn produces, format_fake_json returns text and does not fail:       *)
(* vectors, colors, (TypeCode, index) trait-path segments and              *)
(* (root index, path) file paths in the record are formatted.              *)
(***************************************************************************)
\* main has the record in hand: the reader returned, the text is next
OnMain == entry.fn = "main" /\ Len(log) > 0 /\ log[1].by = "main"
Decoded == OnMain /\ Finished(log[1])
C17_DecodedRecordsFormat ==
    (Decoded /\ status # "running") => status = "done" /\ ret.t = "str"

\* a value format_fake_json has a branch for, all the way down
RECURSIVE Formattable(_)
Formattable(x) ==
    CASE x.t = "dict" ->
           \A i \in 1..Len(x.v) : Formattable(x.v[i][1]) /\ Formattable(x.v[i][2])
      [] x.t = "list" -> \A i \in 1..Len(x.v) : Formattable(x.v[i])
      [] x.t \in {"int", "bool", "float", "str"} -> TRUE
      [] OTHER -> FALSE
\* the text is returned exactly for the records that hold no tuple and no None
C17_FormatsIffNoTuple ==
    (Decoded /\ status # "running") =>
        IF Formattable(log[1].val)
        THEN status = "done" /\ ret.t = "str"
        ELSE status = "failed" /\ err = "TypeError" /\ Top.fn = "main" /\ Top.pc = 2
\* the text of the Samp record whose path is a plain string
SampText ==
    VStr(<< VStr("{"), VStr("\n"), VStr("\t"), VStr("'"), VStr("items"), VStr("'"), VStr(": "),
            VStr("["), VStr("\n"), VStr("\t"), VStr("\t"),
            VStr("{"),
            VStr("\n"), VStr("\t"), VStr("\t"), VStr("\t"), VStr("'"), VStr("obj_type"), VStr("'"),
            VStr(": "), VStr("'"), VStr("Sample"), VStr("'"), VStr(","),
            VStr("\n"), VStr("\t"), VStr("\t"), VStr("\t"), VStr("'"), VStr("obj_name"), VStr("'"),
            VStr(": "), VStr("'"), VStr(T_a), VStr("'"), VStr(","),
            VStr("\n"), VStr("\t"), VStr("\t"), VStr("\t"), VStr("'"), VStr("mode"), VStr("'"),
            VStr(": "), VStr("'"), VStr(T_a), VStr("'"), VStr(","),
            VStr("\n"), VStr("\t"), VStr("\t"), VStr("\t"), VStr("'"), VStr("path"), VStr("'"),
            VStr(": "), VStr("'"), VStr(T_foo_mesh), VStr("'"), VStr(","),
            VStr("\n"), VStr("\t"), VStr("\t"), VStr("\t"), VStr("'"), VStr("volume"), VStr("'"),
            VStr(": "), VStr(<<49>>), VStr(","),
            VStr("\n"), VStr("\t"), VStr("\t"), VStr("\t"), VStr("'"), VStr("pitch"), VStr("'"),
            VStr(": "), VStr(<<48, 46, 53>>), VStr(","),
            VStr("\n"), VStr("\t"), VStr("\t"), VStr("\t"), VStr("'"), VStr("pan"), VStr("'"),
            VStr(": "), VStr(<<48>>), VStr(","),
            VStr("\n"), VStr("\t"), VStr("\t"), VStr("\t"), VStr("'"), VStr("offset"), VStr("'"),
            VStr(": "), VStr(<<50>>), VStr(","),
            VStr("\n"), VStr("\t"), VStr("\t"), VStr("\t"), VStr("'"), VStr("channel_group"),
            VStr("'"), VStr(": "), VStr("'"), VStr(T_b), VStr("'"), VStr(","),
            VStr("\n"), VStr("\t"), VStr("\t"), VStr("}"), VStr(","),
            VStr("\n"), VStr("\t"), VStr("]"), VStr(","),
            VStr("\n"), VStr("}") >>)
C17_SampText ==
    (entry.fn = "main" /\ buf = SampPayloadAt(0) /\ status # "running") =>
        status = "done" /\ ret = SampText

(***************************************************************************)
(* C20: an Lvl or a Spn decodes only when its component list holds exactly *)
(* two components; with any other count the reader fails, although each    *)
(* component is well-formed; with two, the Lvl record takes the fields of  *)
(* the first component and the Spn record the fields of the second,        *)
(* whatever kinds the two components are.                                  *)
(***************************************************************************)
OnSpn(cs) == entry.fn = "read_spn" /\ buf = SpnPayloadWith(cs)
OnLvl(cs) == entry.fn = "read_lvl" /\ buf = LvlPayload(cs, <<"plain">>)
\* every field of the component's record is a field of rec
HoldsFieldsOf(rec, c) ==
    \A i \in 1..Len(ComponentRecord(c).v) :
        HasField(rec, ComponentRecord(c).v[i][1].v, ComponentRecord(c).v[i][2])
\* the single entry of the 'items' list of a Spn record
SpnItem == ret.v[1][2].v[1]
C20_ExactlyTwoComponents ==
    \A cs \in OddLists \cup PairLists :
        /\ (OnSpn(cs) /\ status # "running") =>
               IF Len(cs) = 2
               THEN status = "done" /\ pos = Len(buf) /\ HoldsFieldsOf(SpnItem, cs[2])
               ELSE status = "failed"
        /\ (OnLvl(cs) /\ status # "running") =>
               IF Len(cs) = 2
               THEN status = "done" /\ pos = Len(buf) /\ HoldsFieldsOf(ret, cs[1])
               ELSE status = "failed"

\* the position just after the component list of a Spn and of an Lvl
AfterSpnComponents(cs) == 8 + Len(Components(cs))
AfterLvlComponents(cs) == 12 + Len(Components(cs))
\* another count fails at the unpacking; a pair decodes unless the merged
\* component is a Draw, whose reader returns None
C20_PairsAsDecoded ==
    \A cs \in OddLists \cup PairLists :
        /\ (OnSpn(cs) /\ status # "running") =>
               IF Len(cs) # 2
               THEN /\ status = "failed" /\ err = "ValueError"
                    /\ pos = AfterSpnComponents(cs)
               ELSE IF cs[2] = DrawComp
               THEN /\ status = "failed" /\ err = "TypeError"
                    /\ pos = Len(buf)
               ELSE status = "done" /\ pos = Len(buf) /\ HoldsFieldsOf(SpnItem, cs[2])
        /\ (OnLvl(cs) /\ status # "running") =>
               IF Len(cs) # 2
               THEN /\ status = "failed" /\ err = "ValueError"
                    /\ pos = AfterLvlComponents(cs)
               ELSE IF cs[1] = DrawComp
               THEN /\ status = "failed" /\ err = "TypeError"
                    /\ pos = Len(buf)
               ELSE status = "done" /\ pos = Len(buf) /\ HoldsFieldsOf(ret, cs[1])

(***************************************************************************)
(* C18: read_file returns or fails on every finite file.  Each iteration   *)
(* of a loop driven by a count, and of the loop over the steps, consumes   *)
(* at least one byte or fails: a loop has never completed more iterations  *)
(* than bytes have been consumed since its function was called, whatever   *)
(* the count in the file is, so a decode at the end of the file fails      *)
(* instead of iterating on.                                                *)
(***************************************************************************)
\* the hidden counter of a for loop holds the iterations begun so far
LoopCounters == {"_i", "_j"}
ConsumedSince(frame) == pos - log[frame.li].start
IterationsWithinBytes ==
    \A k \in 1..Len(stack) :
        stack[k].li > 0 =>
            /\ \A c \in LoopCounters \cap DOMAIN stack[k].env :
                   stack[k].env[c].v - 1 <= ConsumedSince(stack[k])
            /\ (stack[k].fn = "read_steps" /\ "steps" \in DOMAIN stack[k].env) =>
                   Len(stack[k].env["steps"].v) <= ConsumedSince(stack[k])
C18_DecodeTerminates ==
    /\ []IterationsWithinBytes
    /\ <>(status # "running")

\* a decode that met the end of its file in iteration MaxCount + 1 of a loop
\* whose count is the largest int32, and failed there
C18_Witness ==
    /\ entry.fn = "read_file"
    /\ buf \in CutFiles(MaxCount)
    /\ status = "failed"
    /\ pos = Len(buf)
    /\ \E c \in LoopCounters \cap DOMAIN Top.env : Top.env[c].v = MaxCount + 1

(***************************************************************************)
(* C19: the two Leaf readers                                               *)
(***************************************************************************)
\* both decodes of the buffer have ended
Compared ==
    /\ entry.fn = "leaf_read_leaf"
    /\ "first" \in DOMAIN entry
    /\ status # "running"

\* C19: on a buffer whose components are all Animation or EditState
\* components, leaf_parser.read_leaf and file_parser.read_leaf both fail, or
\* both return, and then the same record after the same number of bytes
C19_LeafReadersAgree ==
    Compared =>
        \/ entry.first.status = "failed" /\ status = "failed"
        \/ /\ entry.first.status = "done"
           /\ status = "done"
           /\ ret = entry.first.ret
           /\ pos = entry.first.pos

\* both readers return the record of a Leaf with a Color data point
C19_Witness ==
    /\ Compared
    /\ buf = RichLeaf
    /\ status = "done"
    /\ entry.first.status = "done"
    /\ pos = Len(buf)
    /\ Len(Subscript(ret, VStr("seq_objs")).val.v) = 1

====
